---- MODULE Spec2Model ----
(***************************************************************************)
(* Model of the document ingestion pipeline (src/src/ingest-data.py) and   *)
(* of the retrieval-augmented query pipeline                               *)
(* (src/src/medicaid-rag-agent.py).                                        *)
(*                                                                         *)
(* Text is a sequence of character codes.  A path argument is a record     *)
(* [style, file]: the file it names and the way it is spelled.  The cloud  *)
(* services (index store, embedding provider, chat) are the environment:   *)
(* each call's outcome is drawn with \E from what the service can answer.  *)
(*                                                                         *)
(* Spec           python ingest-data.py, run after run                     *)
(* SpecNormalize  file_to_doc called on its own                            *)
(* SpecEnsure     ensure_index called again and again                      *)
(* SpecRag        main of medicaid-rag-agent.py over an ingested index     *)
(* SpecPrompt     create_rag_prompt called on its own                      *)
(* SpecEmbed      the two callers of embeddings.create, on long texts      *)
(* SpecConcurrent two ingest-data.py processes running at the same time    *)
(* SpecDedupe     scrape_contact_form of contact-form-scraper.py           *)
(***************************************************************************)
EXTENDS Naturals, Integers, Sequences, FiniteSets, TLC

(***************************************************************************)
(* Bounds of the model.                                                    *)
(***************************************************************************)
MaxFiles == 3
MaxBatch == 2
MaxRuns == 2
MaxTouch == 1
MaxCalls == 2
MaxPromptDocs == 2
MaxEnsure == 4
MaxShared == 2
MaxFields == 3

(***************************************************************************)
(* Program constants.                                                      *)
(***************************************************************************)
EMBED_DIMS == 1536
EmbedInputCap == 16000
RagTopK == 3
PromptCap == 1000

Procs == 1..2
Files == 1..MaxFiles
Styles == {"abs", "rel", "dot"}
Contents == {<< >>, <<97>>, <<98>>}
NoError == [kind |-> "none", file |-> 0]

VARIABLES
    (* the environment *)
    fs,              \* file -> [mtime, content]; DOMAIN fs = the *.txt files
    aoaiConfigured,  \* AOAI_ENDPOINT and AOAI_API_KEY are both set
    searchEndpoint,  \* AZURE_SEARCH_ENDPOINT: "unset", "empty" or "set"
    searchKey,       \* AZURE_SEARCH_ADMIN_KEY: "unset", "empty" or "set"
    indexExists,     \* the index INDEX_NAME exists at the service
    indexSchema,     \* the definition the service holds for the index
    store,           \* the index's records: document id -> document
    (* one ingestion process *)
    pc,              \* position of each process
    batchSize,       \* upload_documents' batch_size
    paths,           \* load_txt_files' paths
    cursor,          \* index in paths of the file being processed
    doc,             \* the document load_txt_files yielded last
    batch,           \* upload_documents' batch
    uploaded,        \* upload_documents' uploaded
    fatal,           \* the exception that ended the process, or None
    upserts,         \* history: the process's upsert calls, in order
    indexCalls,      \* history: the process's get_index / create_index calls
    embedInputs,     \* history: the inputs the process sent to embeddings.create
    reported,        \* history: the counts the process printed, in order
    (* history of the whole experiment *)
    runs,            \* number of process starts so far
    touches,         \* number of file modifications so far
    cleanRuns,       \* runs that reached Done with every record succeeded
    (* file_to_doc called on its own *)
    calls,           \* history: the calls made, each with what it saw and returned
    (* one run of rag_query *)
    rpc,             \* position in rag_query / search_documents
    query,           \* the user's question
    topK,            \* search_documents' top_k
    queryVector,     \* search_documents' query_vector, << >> before it is set
    documents,       \* search_documents' documents, then rag_query's
    pending,         \* the results the iterator in use has not yielded yet
    hybridFailed,    \* where the hybrid attempt raised, or "no"
    lexFailed,       \* where the text-only attempt raised, or "no"
    searches,        \* history: the search_client.search calls, in order
    embedCalls,      \* history: number of embeddings.create calls
    closes,          \* history: number of search_client.close calls
    prompt,          \* rag_query's prompt, << >> before it is built
    chatCalls,       \* history: the prompts sent to chat.completions.create
    answer,          \* what rag_query returned
    printed,         \* history: the kinds of lines printed
    (* main of medicaid-rag-agent.py *)
    queryInputs,     \* history: the inputs search_documents sent to embeddings.create
    translatorKeySet,\* AZURE_TRANSLATOR_KEY is set
    mainError,       \* the exception that left main, or "none"
    translateCalls,  \* what text_translator.translate was called with
    fpc,             \* position of scrape_contact_form
    all_fields,      \* the fields extracted from the page, in extraction order
    unique_fields,   \* the list scrape_contact_form builds and returns
    seen,            \* the identifiers met so far
    fieldCursor      \* number of fields the loop has taken

configVars == <<aoaiConfigured, searchEndpoint, searchKey>>
indexVars == <<indexExists, indexSchema>>
envVars == <<fs, configVars, indexVars, store>>
logVars == <<indexCalls, embedInputs, reported>>
procVars == <<pc, batchSize, paths, cursor, doc, batch, uploaded, fatal, upserts, logVars>>
histVars == <<runs, touches, cleanRuns>>
ingestVars == <<envVars, procVars, histVars>>
normVars == <<calls>>
ragVars == <<rpc, query, topK, queryVector, documents, pending, hybridFailed, lexFailed, searches,
             embedCalls, closes, prompt, chatCalls, answer, printed>>
mainVars == <<queryInputs, translatorKeySet, mainError, translateCalls>>
formVars == <<fpc, all_fields, unique_fields, seen, fieldCursor>>
vars == <<ingestVars, normVars, ragVars, mainVars, formVars>>

(***************************************************************************)
(* Helpers on sequences.                                                   *)
(***************************************************************************)
Range(s) == {s[i] : i \in DOMAIN s}

Perms(S) == {s \in [1..Cardinality(S) -> S] : Range(s) = S}

Prefix(s, n) == SubSeq(s, 1, n)

RECURSIVE Insert(_, _)
Insert(x, s) ==
    IF s = << >> THEN <<x>>
    ELSE IF x.file <= Head(s).file THEN <<x>> \o s
    ELSE <<Head(s)>> \o Insert(x, Tail(s))

(* sorted(): file numbers stand for the lexicographic order of the paths. *)
RECURSIVE sorted(_)
sorted(s) == IF s = << >> THEN << >> ELSE Insert(Head(s), sorted(Tail(s)))

(***************************************************************************)
(* file_to_doc and what it calls.                                          *)
(***************************************************************************)
abspath(path) == [style |-> "abs", file |-> path.file]

(* The name of file f: "f<f>.txt". *)
FileName(f) == <<102, 48 + f, 46, 116, 120, 116>>

basename(path) == FileName(path.file)

stat(path) == [st_mtime_ns |-> fs[path.file].mtime,
               st_size |-> Len(fs[path.file].content)]

(* hashlib.sha1(...).hexdigest(): a digest, taken to be collision-free. *)
sha1(s) == <<"sha1", s>>

(* Mutant of IdInput: the time of the run is hashed, not the file's
   modification time. *)
IdInput_RunClock(path) == <<path, runs, stat(path).st_size>>

(* f"{path}:{stat.st_mtime_ns}:{stat.st_size}": the path as it was passed. *)
IdInput(path) == <<path, stat(path).st_mtime_ns, stat(path).st_size>>

(* The provider's reply to embeddings.create: it raises, or it returns a
   vector of dims numbers.  A vector is modelled as [dims, of]: its length
   and the text it embeds. *)
EmbedReplies ==
    {[raises |-> TRUE, dims |-> 0]}
        \cup {[raises |-> FALSE, dims |-> d] : d \in {EMBED_DIMS, EMBED_DIMS - 1}}

snippet(text) == IF Len(text) <= EmbedInputCap THEN text ELSE Prefix(text, EmbedInputCap)

get_embedding_raises(text, reply) ==
    \/ ~aoaiConfigured
    \/ reply.raises
    \/ reply.dims # EMBED_DIMS

get_embedding(text, reply) == [dims |-> reply.dims, of |-> snippet(text)]

file_to_doc(path, reply) ==
    LET text == fs[path.file].content
    IN  [id |-> sha1(IdInput(path)),
         content |-> text,
         path |-> abspath(path),
         title |-> basename(path),
         length |-> Len(text),
         embedding |-> get_embedding(text, reply)]

(* glob.glob(os.path.join(directory, "**", "*.txt")): DATA_DIR is absolute,
   so every path it returns is spelled absolute. *)
Globbed == {[style |-> "abs", file |-> f] : f \in DOMAIN fs}

(***************************************************************************)
(* search_client.upload_documents: merge-or-upload of every record the     *)
(* service accepts; ok[i] is the service's verdict on record i.            *)
(***************************************************************************)
(* Mutant of Put: the record replaces every record of the same path. *)
Put_ReplacePath(st, d) ==
    [id \in {i \in DOMAIN st : st[i].path # d.path} \cup {d.id} |->
        IF id = d.id THEN d ELSE st[id]]

Put(st, d) == [id \in DOMAIN st \cup {d.id} |-> IF id = d.id THEN d ELSE st[id]]

RECURSIVE Upsert(_, _, _)
Upsert(st, docs, ok) ==
    IF docs = << >> THEN st
    ELSE Upsert(IF Head(ok) THEN Put(st, Head(docs)) ELSE st, Tail(docs), Tail(ok))

Succeeded(ok) == Cardinality({i \in DOMAIN ok : ok[i]})

Outcomes(n) == [1..n -> BOOLEAN]

EmptyStore == [id \in {} |-> << >>]

(***************************************************************************)
(* The state after the modules are loaded: no process has started.         *)
(***************************************************************************)
InitialContent(f) == IF f % 2 = 1 THEN <<97>> ELSE << >>

InitProc ==
    /\ pc = [p \in Procs |-> "off"]
    /\ batchSize = [p \in Procs |-> 1]
    /\ paths = [p \in Procs |-> << >>]
    /\ cursor = [p \in Procs |-> 0]
    /\ doc = [p \in Procs |-> << >>]
    /\ batch = [p \in Procs |-> << >>]
    /\ uploaded = [p \in Procs |-> 0]
    /\ fatal = [p \in Procs |-> NoError]
    /\ upserts = [p \in Procs |-> << >>]
    /\ indexCalls = [p \in Procs |-> << >>]
    /\ embedInputs = [p \in Procs |-> << >>]
    /\ reported = [p \in Procs |-> << >>]

(* The values os.getenv can give for a variable of the search service. *)
EnvValues == {"unset", "empty", "set"}

SearchConfigured ==
    /\ searchEndpoint = "set"
    /\ searchKey = "set"

(* No index: what the service holds before create_index. *)
NoSchema == [fields |-> {}, vector_search |-> "none"]

(* ensure_index, lines 55-77: the SearchIndex it builds. *)
IndexDefinition ==
    [fields |-> {"id", "content", "path", "title", "length", "embedding"},
     vector_search |-> "hnsw"]

(* data/ingest-data.py, lines 39-46: the SearchIndex of the script without
   embeddings, which names the same index. *)
LexicalIndexDefinition ==
    [fields |-> {"id", "content", "path", "title", "length"},
     vector_search |-> "none"]

InitIngest ==
    /\ \E n \in 0..MaxFiles : fs = [f \in 1..n |-> [mtime |-> 1, content |-> InitialContent(f)]]
    /\ aoaiConfigured \in BOOLEAN
    /\ searchEndpoint \in EnvValues
    /\ searchKey \in EnvValues
    /\ indexExists \in BOOLEAN
    /\ indexSchema = IF indexExists THEN IndexDefinition ELSE NoSchema
    /\ store = EmptyStore
    /\ InitProc
    /\ runs = 0
    /\ touches = 0
    /\ cleanRuns = 0

Ended(p) == pc[p] \in {"off", "Done", "Fatal"}

(* The process ends with an exception. *)
Raise(p, kind, file) ==
    /\ pc' = [pc EXCEPT ![p] = "Fatal"]
    /\ fatal' = [fatal EXCEPT ![p] = [kind |-> kind, file |-> file]]

(* What a file holds after it was rewritten: nothing, or one character. *)
Rewritten == {<< >>, <<97>>}

(***************************************************************************)
(* The environment: a file is rewritten between two runs.  The write moves *)
(* the modification time, or (within the clock's resolution, or with the   *)
(* time set back) leaves it and changes the content.                       *)
(***************************************************************************)
Modify(f) ==
    /\ touches < MaxTouch
    /\ f \in DOMAIN fs
    /\ runs >= 1
    /\ runs < MaxRuns
    /\ \A p \in Procs : Ended(p)
    /\ \E c \in Rewritten, dt \in {0, 1} :
          /\ dt = 0 => c # fs[f].content
          /\ fs' = [fs EXCEPT ![f] = [mtime |-> @.mtime + dt, content |-> c]]
    /\ touches' = touches + 1
    /\ UNCHANGED <<configVars, indexVars, store, procVars, runs, cleanRuns>>

(***************************************************************************)
(* python ingest-data.py, started once more after the previous process     *)
(* ended: the new process has fresh locals.                                *)
(***************************************************************************)
Launch(p) ==
    /\ runs < MaxRuns
    /\ \A q \in Procs : Ended(q)
    /\ pc' = [pc EXCEPT ![p] = "import"]
    /\ batchSize' = [batchSize EXCEPT ![p] = 1]
    /\ paths' = [paths EXCEPT ![p] = << >>]
    /\ cursor' = [cursor EXCEPT ![p] = 0]
    /\ doc' = [doc EXCEPT ![p] = << >>]
    /\ batch' = [batch EXCEPT ![p] = << >>]
    /\ uploaded' = [uploaded EXCEPT ![p] = 0]
    /\ fatal' = [fatal EXCEPT ![p] = NoError]
    /\ upserts' = [upserts EXCEPT ![p] = << >>]
    /\ indexCalls' = [indexCalls EXCEPT ![p] = << >>]
    /\ embedInputs' = [embedInputs EXCEPT ![p] = << >>]
    /\ reported' = [reported EXCEPT ![p] = << >>]
    /\ runs' = runs + 1
    /\ UNCHANGED <<envVars, touches, cleanRuns>>

(* Lines 24-44, run when the script is loaded, before the __main__ block:
   AzureKeyCredential(None) raises TypeError ("key must be a string");
   AzureOpenAI raises when its key or endpoint is None and not when it is
   the empty string (~aoaiConfigured covers both); SearchIndexClient raises
   ValueError on an endpoint that is None.  An empty string passes all
   three constructors. *)
LoadModule(p) ==
    /\ pc[p] = "import"
    /\ \/ /\ searchKey = "unset"
          /\ Raise(p, "TypeError", 0)
       \/ /\ searchKey # "unset"
          /\ ~aoaiConfigured
          /\ Raise(p, "OpenAIError", 0)
       \/ /\ searchKey # "unset"
          /\ searchEndpoint = "unset"
          /\ Raise(p, "ValueError", 0)
       \/ /\ searchKey # "unset"
          /\ searchEndpoint # "unset"
          /\ pc' = [pc EXCEPT ![p] = "Idle"]
          /\ UNCHANGED fatal
    /\ UNCHANGED <<envVars, batchSize, paths, cursor, doc, batch, uploaded, upserts, logVars, histVars>>

(* Mutant of Main: ensure_index is not called, upload_documents is entered
   right after the configuration check. *)
Main_SkipEnsureIndex(p) ==
    /\ pc[p] = "Idle"
    /\ IF SearchConfigured
       THEN /\ pc' = [pc EXCEPT ![p] = "SchemaEnsured"]
            /\ UNCHANGED fatal
       ELSE Raise(p, "SystemExit", 0)
    /\ UNCHANGED <<envVars, batchSize, paths, cursor, doc, batch, uploaded, upserts, logVars, histVars>>

(* __main__, lines 137-140: if not service_endpoint or not search_admin_key:
   raise SystemExit(...); then ensure_index is entered. *)
Main(p) ==
    /\ pc[p] = "Idle"
    /\ IF SearchConfigured
       THEN /\ pc' = [pc EXCEPT ![p] = "get_index"]
            /\ UNCHANGED fatal
       ELSE Raise(p, "SystemExit", 0)
    /\ UNCHANGED <<envVars, batchSize, paths, cursor, doc, batch, uploaded, upserts, logVars, histVars>>

IndexCall(op, result) == [op |-> op, existed |-> indexExists, result |-> result]

(* Mutant of GetIndex: the answer of get_index is not looked at, the index
   is created in every call. *)
GetIndex_NoCheck(p) ==
    /\ pc[p] = "get_index"
    /\ indexCalls' = [indexCalls EXCEPT ![p] =
                         Append(@, IndexCall("get_index", IF indexExists THEN "found" ELSE "not_found"))]
    /\ pc' = [pc EXCEPT ![p] = "create_index"]
    /\ UNCHANGED <<envVars, batchSize, paths, cursor, doc, batch, uploaded, fatal, upserts,
                   embedInputs, reported, histVars>>

(* ensure_index, lines 47-52: index_client.get_index.  It returns the index
   and ensure_index returns; or it raises ResourceNotFoundError, which is
   caught; or it raises another error of the service, which is not. *)
GetIndex(p) ==
    /\ pc[p] = "get_index"
    /\ \/ /\ indexCalls' = [indexCalls EXCEPT ![p] =
                               Append(@, IndexCall("get_index", IF indexExists THEN "found" ELSE "not_found"))]
          /\ pc' = [pc EXCEPT ![p] = IF indexExists THEN "SchemaEnsured" ELSE "create_index"]
          /\ UNCHANGED fatal
       \/ /\ indexCalls' = [indexCalls EXCEPT ![p] = Append(@, IndexCall("get_index", "error"))]
          /\ Raise(p, "HttpResponseError", 0)
    /\ UNCHANGED <<envVars, batchSize, paths, cursor, doc, batch, uploaded, upserts,
                   embedInputs, reported, histVars>>

(* ensure_index, lines 55-79: index_client.create_index(index).  The service
   refuses to create an index that exists; the call can fail as any call
   to the service can. *)
CreateIndex(p) ==
    /\ pc[p] = "create_index"
    /\ \/ /\ indexExists
          /\ indexCalls' = [indexCalls EXCEPT ![p] = Append(@, IndexCall("create_index", "exists"))]
          /\ Raise(p, "ResourceExistsError", 0)
          /\ UNCHANGED indexVars
       \/ /\ ~indexExists
          /\ indexCalls' = [indexCalls EXCEPT ![p] = Append(@, IndexCall("create_index", "created"))]
          /\ indexExists' = TRUE
          /\ indexSchema' = IndexDefinition
          /\ pc' = [pc EXCEPT ![p] = "SchemaEnsured"]
          /\ UNCHANGED fatal
       \/ /\ ~indexExists
          /\ indexCalls' = [indexCalls EXCEPT ![p] = Append(@, IndexCall("create_index", "error"))]
          /\ Raise(p, "HttpResponseError", 0)
          /\ UNCHANGED indexVars
    /\ UNCHANGED <<fs, configVars, store, batchSize, paths, cursor, doc, batch, uploaded, upserts,
                   embedInputs, reported, histVars>>

(* upload_documents(load_txt_files(DATA_DIR), batch_size=b) is entered. *)
UploadDocuments(p) ==
    /\ pc[p] = "SchemaEnsured"
    /\ \E b \in 1..MaxBatch : batchSize' = [batchSize EXCEPT ![p] = b]
    /\ batch' = [batch EXCEPT ![p] = << >>]
    /\ uploaded' = [uploaded EXCEPT ![p] = 0]
    /\ pc' = [pc EXCEPT ![p] = "Scanning"]
    /\ UNCHANGED <<envVars, paths, cursor, doc, fatal, upserts, logVars, histVars>>

(* The position after the loop body: the generator's next path, or the end
   of the for loop. *)
Advance(p, ps, c) == IF c < Len(ps) THEN "Embedding" ELSE "Final"

(* Mutant of Scan: the paths are taken in the order glob returned them. *)
Scan_Unsorted(p) ==
    /\ pc[p] = "Scanning"
    /\ \E order \in Perms(Globbed) :
          /\ paths' = [paths EXCEPT ![p] = order]
          /\ pc' = [pc EXCEPT ![p] = Advance(p, order, 0)]
    /\ cursor' = [cursor EXCEPT ![p] = 1]
    /\ UNCHANGED <<envVars, batchSize, doc, batch, uploaded, fatal, upserts, logVars, histVars>>

(* The first next() on the generator: load_txt_files globs and sorts. *)
Scan(p) ==
    /\ pc[p] = "Scanning"
    /\ \E order \in Perms(Globbed) :
          /\ paths' = [paths EXCEPT ![p] = sorted(order)]
          /\ pc' = [pc EXCEPT ![p] = Advance(p, sorted(order), 0)]
    /\ cursor' = [cursor EXCEPT ![p] = 1]
    /\ UNCHANGED <<envVars, batchSize, doc, batch, uploaded, fatal, upserts, logVars, histVars>>

(* get_embedding, lines 82-89: what aoai_client.embeddings.create has been
   sent once file_to_doc ran on a file: the snippet, when the file was read
   and the configuration check passed. *)
Submit(p, readable, text) ==
    IF readable /\ aoaiConfigured
    THEN [embedInputs EXCEPT ![p] = Append(@, snippet(text))]
    ELSE embedInputs

(* Mutant of FileToDoc: a file whose embedding fails is skipped and the run
   goes on with the next file. *)
FileToDoc_SkipOnEmbedError(p) ==
    /\ pc[p] = "Embedding"
    /\ LET path == paths[p][cursor[p]]
       IN  \E readable \in BOOLEAN, reply \in EmbedReplies :
             /\ embedInputs' = Submit(p, readable, fs[path.file].content)
             /\ IF ~readable
                THEN /\ Raise(p, "IOError", path.file)
                     /\ UNCHANGED <<doc, cursor>>
                ELSE IF get_embedding_raises(fs[path.file].content, reply)
                THEN /\ pc' = [pc EXCEPT ![p] = Advance(p, paths[p], cursor[p])]
                     /\ cursor' = [cursor EXCEPT ![p] = @ + 1]
                     /\ UNCHANGED <<doc, fatal>>
                ELSE /\ doc' = [doc EXCEPT ![p] = <<file_to_doc(path, reply)>>]
                     /\ pc' = [pc EXCEPT ![p] = "Batching"]
                     /\ UNCHANGED <<fatal, cursor>>
    /\ UNCHANGED <<envVars, batchSize, paths, batch, uploaded, upserts, indexCalls, reported, histVars>>

(* Mutant of FileToDoc: the accumulated batch is submitted before the
   error of a file leaves upload_documents. *)
FileToDoc_FlushOnAbort(p) ==
    /\ pc[p] = "Embedding"
    /\ LET path == paths[p][cursor[p]]
       IN  \E readable \in BOOLEAN, reply \in EmbedReplies :
             IF readable /\ ~get_embedding_raises(fs[path.file].content, reply)
             THEN /\ doc' = [doc EXCEPT ![p] = <<file_to_doc(path, reply)>>]
                  /\ pc' = [pc EXCEPT ![p] = "Batching"]
                  /\ embedInputs' = Submit(p, readable, fs[path.file].content)
                  /\ UNCHANGED <<fatal, store, uploaded, upserts, indexCalls, reported>>
             ELSE /\ Raise(p, IF readable THEN "RuntimeError: Failed to create embedding"
                                          ELSE "IOError", path.file)
                  /\ store' = Upsert(store, batch[p], [i \in DOMAIN batch[p] |-> TRUE])
                  /\ upserts' = [upserts EXCEPT ![p] =
                          Append(@, [ids |-> [i \in DOMAIN batch[p] |-> batch[p][i].id],
                                     files |-> [i \in DOMAIN batch[p] |-> batch[p][i].path.file],
                                     ok |-> [i \in DOMAIN batch[p] |-> TRUE]])]
                  /\ UNCHANGED <<doc, uploaded, logVars>>
    /\ UNCHANGED <<fs, configVars, indexVars, batchSize, paths, cursor, batch, histVars>>

(* load_txt_files: yield file_to_doc(p).  open() raises when the file is
   unreadable; get_embedding's errors are raised again as a RuntimeError
   naming the path.  Neither is caught by load_txt_files, upload_documents
   or __main__. *)
FileToDoc(p) ==
    /\ pc[p] = "Embedding"
    /\ LET path == paths[p][cursor[p]]
       IN  \E readable \in BOOLEAN, reply \in EmbedReplies :
             /\ embedInputs' = Submit(p, readable, fs[path.file].content)
             /\ IF ~readable
                THEN /\ Raise(p, "IOError", path.file)
                     /\ UNCHANGED doc
                ELSE IF get_embedding_raises(fs[path.file].content, reply)
                THEN /\ Raise(p, "RuntimeError: Failed to create embedding", path.file)
                     /\ UNCHANGED doc
                ELSE /\ doc' = [doc EXCEPT ![p] = <<file_to_doc(path, reply)>>]
                     /\ pc' = [pc EXCEPT ![p] = "Batching"]
                     /\ UNCHANGED fatal
    /\ UNCHANGED <<envVars, batchSize, paths, cursor, batch, uploaded, upserts, indexCalls, reported, histVars>>

(* Mutant of BatchAppend: the batch is flushed once it holds more than
   batch_size documents. *)
BatchAppend_FlushLate(p) ==
    /\ pc[p] = "Batching"
    /\ batch' = [batch EXCEPT ![p] = Append(@, doc[p][1])]
    /\ IF Len(batch[p]) + 1 > batchSize[p]
       THEN /\ pc' = [pc EXCEPT ![p] = "Uploading"]
            /\ UNCHANGED cursor
       ELSE /\ pc' = [pc EXCEPT ![p] = Advance(p, paths[p], cursor[p])]
            /\ cursor' = [cursor EXCEPT ![p] = @ + 1]
    /\ UNCHANGED <<envVars, batchSize, paths, doc, uploaded, fatal, upserts, logVars, histVars>>

(* upload_documents: batch.append(doc); if len(batch) >= batch_size. *)
BatchAppend(p) ==
    /\ pc[p] = "Batching"
    /\ batch' = [batch EXCEPT ![p] = Append(@, doc[p][1])]
    /\ IF Len(batch[p]) + 1 >= batchSize[p]
       THEN /\ pc' = [pc EXCEPT ![p] = "Uploading"]
            /\ UNCHANGED cursor
       ELSE /\ pc' = [pc EXCEPT ![p] = Advance(p, paths[p], cursor[p])]
            /\ cursor' = [cursor EXCEPT ![p] = @ + 1]
    /\ UNCHANGED <<envVars, batchSize, paths, doc, uploaded, fatal, upserts, logVars, histVars>>

(* Mutant of CallUpsert: the line printed gives the count of the batch, not
   the running total. *)
CallUpsert_ReportsBatchCount(p, ok) ==
    /\ store' = Upsert(store, batch[p], ok)
    /\ uploaded' = [uploaded EXCEPT ![p] = @ + Succeeded(ok)]
    /\ upserts' = [upserts EXCEPT ![p] =
                      Append(@, [ids |-> [i \in DOMAIN batch[p] |-> batch[p][i].id],
                                 files |-> [i \in DOMAIN batch[p] |-> batch[p][i].path.file],
                                 ok |-> ok])]
    /\ reported' = [reported EXCEPT ![p] = Append(@, Succeeded(ok))]
    /\ UNCHANGED <<indexCalls, embedInputs>>

(* Mutant of CallUpsert: the call replaces what the index holds by the
   records of the batch. *)
CallUpsert_ReplacesStore(p, ok) ==
    /\ store' = Upsert(EmptyStore, batch[p], ok)
    /\ uploaded' = [uploaded EXCEPT ![p] = @ + Succeeded(ok)]
    /\ upserts' = [upserts EXCEPT ![p] =
                      Append(@, [ids |-> [i \in DOMAIN batch[p] |-> batch[p][i].id],
                                 files |-> [i \in DOMAIN batch[p] |-> batch[p][i].path.file],
                                 ok |-> ok])]
    /\ reported' = [reported EXCEPT ![p] = Append(@, uploaded'[p])]
    /\ UNCHANGED <<indexCalls, embedInputs>>

(* One search_client.upload_documents(documents=batch) call, the count of
   its results and the print of the total: the service answers record by
   record, or the call raises. *)
CallUpsert(p, ok) ==
    /\ store' = Upsert(store, batch[p], ok)
    /\ uploaded' = [uploaded EXCEPT ![p] = @ + Succeeded(ok)]
    /\ upserts' = [upserts EXCEPT ![p] =
                      Append(@, [ids |-> [i \in DOMAIN batch[p] |-> batch[p][i].id],
                                 files |-> [i \in DOMAIN batch[p] |-> batch[p][i].path.file],
                                 ok |-> ok])]
    /\ reported' = [reported EXCEPT ![p] = Append(@, uploaded'[p])]
    /\ UNCHANGED <<indexCalls, embedInputs>>

(* Mutant of Flush: the records reported as failed stay in the batch and are
   submitted again with the next flush. *)
Flush_RetryFailed(p) ==
    /\ pc[p] = "Uploading"
    /\ \E ok \in Outcomes(Len(batch[p])) :
          /\ CallUpsert(p, ok)
          /\ batch' = [batch EXCEPT ![p] = SelectSeq(@, LAMBDA d : \E i \in DOMAIN ok : ~ok[i] /\ batch[p][i] = d)]
    /\ pc' = [pc EXCEPT ![p] = Advance(p, paths[p], cursor[p])]
    /\ cursor' = [cursor EXCEPT ![p] = @ + 1]
    /\ UNCHANGED <<fs, configVars, indexVars, batchSize, paths, doc, fatal, histVars>>

(* upload_documents: the flush inside the loop. *)
Flush(p) ==
    /\ pc[p] = "Uploading"
    /\ \/ /\ \E ok \in Outcomes(Len(batch[p])) : CallUpsert(p, ok)
          /\ batch' = [batch EXCEPT ![p] = << >>]
          /\ pc' = [pc EXCEPT ![p] = Advance(p, paths[p], cursor[p])]
          /\ cursor' = [cursor EXCEPT ![p] = @ + 1]
          /\ UNCHANGED fatal
       \/ /\ Raise(p, "HttpResponseError", 0)
          /\ UNCHANGED <<store, uploaded, upserts, logVars, batch, cursor>>
    /\ UNCHANGED <<fs, configVars, indexVars, batchSize, paths, doc, histVars>>

CleanRun(log) == \A i \in DOMAIN log : \A j \in DOMAIN log[i].ok : log[i].ok[j]

(* Mutant of FinalFlush: the partial batch left after the loop is dropped. *)
FinalFlush_Dropped(p) ==
    /\ pc[p] = "Final"
    /\ batch[p] # << >>
    /\ pc' = [pc EXCEPT ![p] = "Done"]
    /\ cleanRuns' = IF CleanRun(upserts[p]) THEN cleanRuns + 1 ELSE cleanRuns
    /\ UNCHANGED <<envVars, batchSize, paths, cursor, doc, batch, uploaded, fatal, upserts, logVars, runs, touches>>

(* upload_documents: if batch: the final flush; then print("Done."). *)
FinalFlush(p) ==
    /\ pc[p] = "Final"
    /\ batch[p] # << >>
    /\ \/ /\ \E ok \in Outcomes(Len(batch[p])) : CallUpsert(p, ok)
          /\ pc' = [pc EXCEPT ![p] = "Done"]
          /\ cleanRuns' = IF CleanRun(upserts'[p]) THEN cleanRuns + 1 ELSE cleanRuns
          /\ UNCHANGED fatal
       \/ /\ Raise(p, "HttpResponseError", 0)
          /\ UNCHANGED <<store, uploaded, upserts, logVars, cleanRuns>>
    /\ UNCHANGED <<fs, configVars, indexVars, batchSize, paths, cursor, doc, batch, runs, touches>>

(* upload_documents: the batch is empty after the loop; print("Done."). *)
Finish(p) ==
    /\ pc[p] = "Final"
    /\ batch[p] = << >>
    /\ pc' = [pc EXCEPT ![p] = "Done"]
    /\ cleanRuns' = IF CleanRun(upserts[p]) THEN cleanRuns + 1 ELSE cleanRuns
    /\ UNCHANGED <<envVars, batchSize, paths, cursor, doc, batch, uploaded, fatal, upserts, logVars, runs, touches>>

IngestStep(p) ==
    \/ LoadModule(p)
    \/ Main(p)
    \/ GetIndex(p)
    \/ CreateIndex(p)
    \/ UploadDocuments(p)
    \/ Scan(p)
    \/ FileToDoc(p)
    \/ BatchAppend(p)
    \/ Flush(p)
    \/ FinalFlush(p)
    \/ Finish(p)

(* scrape_contact_form is not running. *)
InitFormIdle ==
    /\ fpc = "off"
    /\ all_fields = << >>
    /\ unique_fields = << >>
    /\ seen = {}
    /\ fieldCursor = 0

(* No rag_query is running. *)
NoAnswer == [none |-> TRUE, text |-> << >>]

InitRagIdle ==
    /\ rpc = "off"
    /\ query = << >>
    /\ topK = 0
    /\ queryVector = << >>
    /\ documents = << >>
    /\ pending = << >>
    /\ hybridFailed = "no"
    /\ lexFailed = "no"
    /\ searches = << >>
    /\ embedCalls = 0
    /\ closes = 0
    /\ prompt = << >>
    /\ chatCalls = << >>
    /\ answer = NoAnswer
    /\ printed = {}
    /\ queryInputs = << >>
    /\ translatorKeySet = TRUE
    /\ mainError = "none"
    /\ translateCalls = << >>

Next ==
    \/ Launch(1) /\ UNCHANGED <<normVars, ragVars, mainVars, formVars>>
    \/ \E p \in Procs : IngestStep(p) /\ UNCHANGED <<normVars, ragVars, mainVars, formVars>>
    \/ \E f \in Files : Modify(f) /\ UNCHANGED <<normVars, ragVars, mainVars, formVars>>

Init ==
    /\ InitIngest
    /\ calls = << >>
    /\ InitRagIdle
    /\ InitFormIdle

Spec == Init /\ [][Next]_vars

(***************************************************************************)
(* file_to_doc as a function of its path argument and of the file system:  *)
(* any caller, any spelling of the path, the file rewritten in between.    *)
(***************************************************************************)
PathArgs == {[style |-> s, file |-> f] : s \in Styles, f \in DOMAIN fs}

OkReply == [raises |-> FALSE, dims |-> EMBED_DIMS]

(* One call of file_to_doc(path) that returns. *)
CallFileToDoc(path) ==
    /\ path \in PathArgs
    /\ aoaiConfigured
    /\ Len(calls) < MaxCalls
    /\ calls' = Append(calls, [arg |-> path,
                                abs |-> abspath(path),
                                mtime |-> stat(path).st_mtime_ns,
                                size |-> stat(path).st_size,
                                content |-> fs[path.file].content,
                                id |-> file_to_doc(path, OkReply).id])
    /\ UNCHANGED <<ingestVars, ragVars, mainVars, formVars>>

(* The file gets another content and a later modification time. *)
Touch(f) ==
    /\ f \in DOMAIN fs
    /\ touches < MaxTouch
    /\ \E c \in Contents :
          fs' = [fs EXCEPT ![f] = [mtime |-> @.mtime + 1, content |-> c]]
    /\ touches' = touches + 1
    /\ UNCHANGED <<configVars, indexVars, store, procVars, runs, cleanRuns, calls, ragVars, mainVars, formVars>>

(* The file gets another content and its modification time is kept (the
   time is set back, or the clock is too coarse to tell). *)
Rewrite(f) ==
    /\ f \in DOMAIN fs
    /\ \E c \in Contents \ {fs[f].content} :
          fs' = [fs EXCEPT ![f] = [mtime |-> @.mtime, content |-> c]]
    /\ UNCHANGED <<configVars, indexVars, store, procVars, histVars, calls, ragVars, mainVars, formVars>>

NextNormalize ==
    \/ \E path \in [style : Styles, file : Files] : CallFileToDoc(path)
    \/ \E f \in Files : Touch(f)
    \/ \E f \in Files : Rewrite(f)

InitNormalize ==
    /\ Init
    /\ SearchConfigured
    /\ ~indexExists

SpecNormalize == InitNormalize /\ [][NextNormalize]_vars

(***************************************************************************)
(* ensure_index called again and again by one process, on a service that   *)
(* holds no index, the index of this script, or the index of               *)
(* data/ingest-data.py.                                                    *)
(***************************************************************************)
GetIndexCalls(p) == {i \in DOMAIN indexCalls[p] : indexCalls[p][i].op = "get_index"}

(* One more call of ensure_index(), after the previous one returned or
   raised. *)
CallEnsureIndex(p) ==
    /\ pc[p] \in {"off", "SchemaEnsured", "Fatal"}
    /\ Cardinality(GetIndexCalls(p)) < MaxEnsure
    /\ pc' = [pc EXCEPT ![p] = "get_index"]
    /\ fatal' = [fatal EXCEPT ![p] = NoError]
    /\ UNCHANGED <<envVars, batchSize, paths, cursor, doc, batch, uploaded, upserts, logVars, histVars>>

NextEnsure ==
    \/ CallEnsureIndex(1) /\ UNCHANGED <<normVars, ragVars, mainVars, formVars>>
    \/ GetIndex(1) /\ UNCHANGED <<normVars, ragVars, mainVars, formVars>>
    \/ CreateIndex(1) /\ UNCHANGED <<normVars, ragVars, mainVars, formVars>>

InitEnsure ==
    /\ fs = [f \in {} |-> << >>]
    /\ aoaiConfigured = TRUE
    /\ SearchConfigured
    /\ indexSchema \in {NoSchema, IndexDefinition, LexicalIndexDefinition}
    /\ indexExists = (indexSchema # NoSchema)
    /\ store = EmptyStore
    /\ InitProc
    /\ runs = 0
    /\ touches = 0
    /\ cleanRuns = 0
    /\ calls = << >>
    /\ InitRagIdle
    /\ InitFormIdle

SpecEnsure == InitEnsure /\ [][NextEnsure]_vars

(***************************************************************************)
(* What the history of a process says.                                     *)
(***************************************************************************)
RECURSIVE Flatten(_)
Flatten(ss) == IF ss = << >> THEN << >> ELSE Head(ss) \o Flatten(Tail(ss))

(* The files of the documents the process submitted, in submission order. *)
Submitted(p) == Flatten([i \in DOMAIN upserts[p] |-> upserts[p][i].files])

(* The records the service reported as succeeded to the process. *)
RECURSIVE SumSucceeded(_)
SumSucceeded(log) ==
    IF log = << >> THEN 0 ELSE Succeeded(Head(log).ok) + SumSucceeded(Tail(log))

NoDuplicates(s) == \A i, j \in DOMAIN s : s[i] = s[j] => i = j

PathFiles(p) == [i \in DOMAIN paths[p] |-> paths[p][i].file]

EmbedFatal(p) ==
    /\ pc[p] = "Fatal"
    /\ fatal[p].kind = "RuntimeError: Failed to create embedding"

(* The state of the ingestion state machine a process is in.  The script is
   Idle until ensure_index has returned; after the for loop of
   upload_documents it is Uploading when a partial batch is left to flush
   and Done when nothing is left but print("Done."). *)
Phase(p) ==
    CASE pc[p] \in {"import", "Idle", "get_index", "create_index"} -> "Idle"
      [] pc[p] = "Final" -> IF batch[p] # << >> THEN "Uploading" ELSE "Done"
      [] OTHER -> pc[p]

(* A process is started: whatever the previous one ended in. *)
StartOfRun == {<<"off", "Idle">>, <<"Done", "Idle">>, <<"Fatal", "Idle">>}

(* ensure_index has returned to the process. *)
EnsureIndexReturned(p) ==
    \E i \in DOMAIN indexCalls[p] : indexCalls[p][i].result \in {"found", "created"}

(* The files of the directory in sorted path order. *)
SortedFiles == [i \in 1..Cardinality(DOMAIN fs) |-> i]

(***************************************************************************)
(* C1.  Batch flush: a run of upload_documents over N documents with batch *)
(* size B that returns has issued exactly ceil(N/B) upsert calls, and the  *)
(* last of them carries N mod B documents, or B when B divides N (N > 0).  *)
(***************************************************************************)
C1_BatchFlush ==
    \A p \in Procs :
        pc[p] = "Done" =>
            LET N == Len(paths[p])
                B == batchSize[p]
                calls_ == upserts[p]
            IN  /\ Len(calls_) = (N + B - 1) \div B
                /\ N > 0 =>
                      Len(calls_[Len(calls_)].files) = (IF N % B = 0 THEN B ELSE N % B)

(* A finished run of three documents in batches of two: two calls, the
   last one of a single document. *)
C1_Witness ==
    \E p \in Procs :
        /\ pc[p] = "Done"
        /\ Len(paths[p]) = 3
        /\ batchSize[p] = 2
        /\ Len(upserts[p]) = 2
        /\ Len(upserts[p][2].files) = 1

(***************************************************************************)
(* C2.  Idempotent identity, as claimed: two file_to_doc calls that see    *)
(* the same absolute path, modification time and size return the same id,  *)
(* whatever the content and however the path argument was spelled.         *)
(***************************************************************************)
C2_IdOfAbsPathMtimeSize ==
    \A i, j \in DOMAIN calls :
        (/\ calls[i].abs = calls[j].abs
         /\ calls[i].mtime = calls[j].mtime
         /\ calls[i].size = calls[j].size) => calls[i].id = calls[j].id

(***************************************************************************)
(* C3.  Idempotent re-ingestion: once a run over the unchanged files has   *)
(* finished with every upsert record succeeded, the store holds exactly    *)
(* one record per input file, that file's document, and stays so through   *)
(* every further run: a rerun overwrites and adds nothing.                 *)
(***************************************************************************)
C3_OneRecordPerFile ==
    (touches = 0 /\ cleanRuns >= 1) =>
        /\ Cardinality(DOMAIN store) = Cardinality(DOMAIN fs)
        /\ \A f \in DOMAIN fs :
              /\ Cardinality({id \in DOMAIN store : store[id].path.file = f}) = 1
              /\ \E id \in DOMAIN store :
                    /\ store[id].path.file = f
                    /\ store[id].content = fs[f].content

(* Two complete runs over the same two or more files. *)
C3_Witness ==
    /\ touches = 0
    /\ cleanRuns = 2
    /\ Cardinality(DOMAIN fs) >= 2
    /\ Cardinality(DOMAIN store) = Cardinality(DOMAIN fs)

(***************************************************************************)
(* C8.  Fail-fast on an embedding error, without rollback: a run never     *)
(* goes past a file whose embedding cannot be computed (with the embedding *)
(* configuration missing no document is ever batched); the run that the    *)
(* error ended names the file it was processing; it issues no upsert call  *)
(* afterwards; every record an earlier call wrote is in the store; and no  *)
(* step ever removes a record from the store.                              *)
(***************************************************************************)
C8_AbortNamesFile ==
    \A p \in Procs :
        /\ (~aoaiConfigured /\ paths[p] # << >>) =>
              pc[p] \notin {"Batching", "Uploading", "Final", "Done"}
        /\ EmbedFatal(p) =>
              /\ fatal[p].file = paths[p][cursor[p]].file
              /\ \A i \in DOMAIN Submitted(p) : Submitted(p)[i] < fatal[p].file
              /\ \A i \in DOMAIN upserts[p] : \A j \in DOMAIN upserts[p][i].ok :
                    upserts[p][i].ok[j] => upserts[p][i].ids[j] \in DOMAIN store

C8_StepNoUpsertNoRollback ==
    /\ \A p \in Procs :
          (EmbedFatal(p) /\ pc'[p] = "Fatal") => upserts'[p] = upserts[p]
    /\ \A p \in Procs :
          (pc[p] = "Embedding" /\ pc'[p] = "Fatal") => (store' = store /\ upserts'[p] = upserts[p])
    /\ \A id \in DOMAIN store : id \in DOMAIN store'

C8_FailFastNoRollback == []C8_AbortNamesFile /\ [][C8_StepNoUpsertNoRollback]_vars

(* The embedding of a later file failed after an earlier batch was written. *)
C8_Witness ==
    \E p \in Procs :
        /\ EmbedFatal(p)
        /\ fatal[p].file >= 2
        /\ upserts[p] # << >>
        /\ upserts[p][1].ok[1]
        /\ upserts[p][1].ids[1] \in DOMAIN store

(***************************************************************************)
(* C9.  Unreadable file is local, as claimed: a file that cannot be read   *)
(* does not end the run, and every other file is still uploaded.           *)
(***************************************************************************)
C9_UnreadableFileIsLocal ==
    \A p \in Procs :
        fatal[p].kind = "IOError" =>
            /\ pc[p] # "Fatal"
            /\ pc[p] = "Done" =>
                  \A f \in Range(PathFiles(p)) \ {fatal[p].file} : f \in Range(Submitted(p))

(***************************************************************************)
(* C10.  Partial upsert failure is neither fatal nor retried: the count    *)
(* uploaded is the number of records reported as succeeded; no document is *)
(* submitted twice in a run; an upsert call that returns, whatever it      *)
(* reports, is followed by the next file or by the end of the run, never   *)
(* by an abort; and a run that reached Done submitted every document       *)
(* exactly once, in order.                                                 *)
(***************************************************************************)
C10_CountedOnce ==
    \A p \in Procs :
        /\ uploaded[p] = SumSucceeded(upserts[p])
        /\ NoDuplicates(Submitted(p))
        /\ pc[p] = "Done" => Submitted(p) = PathFiles(p)

C10_StepContinues ==
    \A p \in Procs :
        Len(upserts'[p]) = Len(upserts[p]) + 1 =>
            /\ pc'[p] \in {"Embedding", "Final", "Done"}
            /\ fatal'[p] = NoError

C10_PartialFailureNotFatal == []C10_CountedOnce /\ [][C10_StepContinues]_vars

(* A finished run whose first batch had a failed record and that went on to
   submit a second batch. *)
C10_Witness ==
    \E p \in Procs :
        /\ pc[p] = "Done"
        /\ Len(upserts[p]) >= 2
        /\ ~upserts[p][1].ok[1]
        /\ uploaded[p] < Len(paths[p])

(***************************************************************************)
(* C11.  ensure_index is idempotent: a create-index call is issued exactly *)
(* when get_index just answered that the index does not exist, and never   *)
(* on an index that exists; over any sequence of calls at most one create  *)
(* succeeds and none is issued after a call that returned; an existing     *)
(* index is never removed and its definition never changes, so the schema  *)
(* after every later call is the schema after the first call that          *)
(* returned.                                                               *)
(***************************************************************************)
C11_CreateIffAbsent ==
    \A p \in Procs :
        LET log == indexCalls[p]
        IN  /\ \A i \in DOMAIN log :
                  /\ log[i].op = "create_index" =>
                        /\ ~log[i].existed
                        /\ i > 1
                        /\ log[i - 1].op = "get_index"
                        /\ log[i - 1].result = "not_found"
                  /\ log[i].op = "get_index" =>
                        /\ log[i].result = "found" => log[i].existed
                        /\ log[i].result = "not_found" =>
                              /\ ~log[i].existed
                              /\ IF i < Len(log) THEN log[i + 1].op = "create_index"
                                 ELSE pc[p] = "create_index"
                  /\ log[i].result \in {"found", "created"} =>
                        \A j \in DOMAIN log : j > i => log[j].op = "get_index" /\ log[j].result # "not_found"
            /\ Cardinality({i \in DOMAIN log : log[i].result = "created"}) <= 1
            /\ (\E i \in DOMAIN log : log[i].result = "created") => indexSchema = IndexDefinition

C11_StepKeepsIndex ==
    indexExists => (indexExists' /\ indexSchema' = indexSchema)

C11_EnsureIndexIdempotent == []C11_CreateIffAbsent /\ [][C11_StepKeepsIndex]_vars

(* Three calls in a row on a service without the index: the first created
   it, the next two found it and issued nothing else. *)
C11_Witness ==
    /\ pc[1] = "SchemaEnsured"
    /\ Len(indexCalls[1]) = 4
    /\ indexCalls[1][2].result = "created"
    /\ indexCalls[1][3].result = "found"
    /\ indexCalls[1][4].result = "found"
    /\ indexSchema = IndexDefinition

(***************************************************************************)
(* C12.  Missing configuration fails before the network, as claimed: a     *)
(* process started without the search endpoint or without the admin key    *)
(* (the embedding configuration being complete) never gets past the        *)
(* configuration check, ends with the SystemExit that names the two        *)
(* variables, and has called neither the index store nor the embedding     *)
(* provider.                                                               *)
(***************************************************************************)
C12_MissingConfigExitsClean ==
    \A p \in Procs :
        (aoaiConfigured /\ ~SearchConfigured) =>
            /\ pc[p] \in {"off", "import", "Idle", "Fatal"}
            /\ pc[p] = "Fatal" => fatal[p].kind = "SystemExit"
            /\ indexCalls[p] = << >>
            /\ embedInputs[p] = << >>
            /\ upserts[p] = << >>

(***************************************************************************)
(* The retrieval-augmented query pipeline: search_documents,               *)
(* create_rag_prompt and rag_query of medicaid-rag-agent.py.               *)
(***************************************************************************)
Queries == {<<113>>, <<113, 63>>}

Answers == {<<111, 107>>}

Min(a, b) == IF a <= b THEN a ELSE b

Injective(s) == \A i, j \in DOMAIN s : s[i] = s[j] => i = j

(* What search_client.search can answer: at most top records of the index,
   each once, ranked by descending score. *)
SearchReplies(top) ==
    LET ranked == UNION {[1..n -> DOMAIN store] : n \in 0..Min(top, Cardinality(DOMAIN store))}
    IN  {[i \in DOMAIN r |-> [id |-> r[i],
                              title |-> store[r[i]].title,
                              content |-> store[r[i]].content,
                              path |-> store[r[i]].path,
                              length |-> store[r[i]].length,
                              score |-> Len(r) + 1 - i]] : r \in {x \in ranked : Injective(x)}}

(* The dictionary search_documents appends for one result. *)
ToDocument(result) ==
    [id |-> result.id,
     content |-> result.content,
     title |-> result.title,
     path |-> result.path,
     score |-> result.score]

SearchCall(mode, vector, raised, results) ==
    [mode |-> mode, text |-> query, top |-> topK, vector |-> vector,
     raised |-> raised, results |-> results]

(* The literals of create_rag_prompt, character by character. *)
PromptHead ==
    <<89, 111, 117, 32, 97, 114, 101, 32, 97, 32, 104, 101, 108, 112, 102,
      117, 108, 32, 97, 115, 115, 105, 115, 116, 97, 110, 116, 32, 116, 104,
      97, 116, 32, 97, 110, 115, 119, 101, 114, 115, 32, 113, 117, 101, 115,
      116, 105, 111, 110, 115, 32, 97, 98, 111, 117, 116, 32, 77, 101, 100,
      105, 99, 97, 105, 100, 32, 98, 97, 115, 101, 100, 32, 111, 110, 32,
      116, 104, 101, 32, 112, 114, 111, 118, 105, 100, 101, 100, 32, 99,
      111, 110, 116, 101, 120, 116, 46, 10, 10, 67, 111, 110, 116, 101, 120,
      116, 32, 102, 114, 111, 109, 32, 100, 111, 99, 117, 109, 101, 110,
      116, 115, 58, 10>>

PromptMid ==
    <<10, 10, 85, 115, 101, 114, 32, 81, 117, 101, 115, 116, 105, 111, 110,
      58, 32>>

PromptTail ==
    <<10, 10, 80, 108, 101, 97, 115, 101, 32, 97, 110, 115, 119, 101, 114,
      32, 116, 104, 101, 32, 113, 117, 101, 115, 116, 105, 111, 110, 32, 98,
      97, 115, 101, 100, 32, 111, 110, 32, 116, 104, 101, 32, 99, 111, 110,
      116, 101, 120, 116, 32, 112, 114, 111, 118, 105, 100, 101, 100, 32,
      97, 98, 111, 118, 101, 46, 32, 73, 102, 32, 116, 104, 101, 32, 97,
      110, 115, 119, 101, 114, 32, 105, 115, 32, 110, 111, 116, 32, 105,
      110, 32, 116, 104, 101, 32, 99, 111, 110, 116, 101, 120, 116, 44, 32,
      115, 97, 121, 32, 115, 111, 46>>

DocLabel == <<68, 111, 99, 117, 109, 101, 110, 116, 58, 32>>

NewLine == <<10>>

Ellipsis == <<46, 46, 46>>

(* "\n\n".join(parts) *)
RECURSIVE Join(_)
Join(parts) ==
    IF parts = << >> THEN << >>
    ELSE IF Len(parts) = 1 THEN parts[1]
    ELSE parts[1] \o NewLine \o NewLine \o Join(Tail(parts))

(* Mutant of DocContext: a content of exactly PromptCap characters is cut
   and marked too. *)
DocContext_CutAtCap(d) ==
    IF Len(d.content) >= PromptCap
    THEN DocLabel \o d.title \o NewLine \o Prefix(d.content, PromptCap - 1) \o Ellipsis
    ELSE DocLabel \o d.title \o NewLine \o d.content

(* One element of the list create_rag_prompt joins. *)
DocContext(d) ==
    IF Len(d.content) > PromptCap
    THEN DocLabel \o d.title \o NewLine \o Prefix(d.content, PromptCap) \o Ellipsis
    ELSE DocLabel \o d.title \o NewLine \o d.content

(* Mutant of create_rag_prompt: the context lists the documents last to
   first. *)
create_rag_prompt_Reversed(q, docs) ==
    PromptHead \o Join([i \in DOMAIN docs |-> DocContext(docs[Len(docs) + 1 - i])])
        \o PromptMid \o q \o PromptTail

create_rag_prompt(q, docs) ==
    PromptHead \o Join([i \in DOMAIN docs |-> DocContext(docs[i])])
        \o PromptMid \o q \o PromptTail

(* rag_query calls search_documents(query, top_k=3): the client is built
   and documents is empty. *)
StartRag ==
    /\ rpc = "off"
    /\ rpc' = "embed"
    /\ topK' = RagTopK
    /\ documents' = << >>
    /\ UNCHANGED <<query, queryVector, pending, hybridFailed, lexFailed, searches,
                   embedCalls, closes, prompt, chatCalls, answer, printed>>

(* Mutant of HybridFails: no handler, the exception leaves search_documents
   through the finally clause. *)
HybridFails_Propagates(where, lines) ==
    /\ rpc' = "raised"
    /\ hybridFailed' = where
    /\ closes' = closes + 1
    /\ printed' = printed \cup lines

(* except Exception as e: the hybrid attempt raised at `where`. *)
HybridFails(where, lines) ==
    /\ rpc' = "fallback"
    /\ hybridFailed' = where
    /\ printed' = printed \cup lines \cup {"Vector search failed"}
    /\ UNCHANGED closes

(* search_documents, lines 59-80: the configuration check, the embedding
   client and embeddings.create(input=query). *)
EmbedQuery ==
    /\ rpc = "embed"
    /\ \/ /\ ~aoaiConfigured
          /\ HybridFails("config", {"Missing embedding configuration"})
          /\ UNCHANGED <<embedCalls, queryInputs, queryVector>>
       \/ /\ aoaiConfigured
          /\ HybridFails("client", {})
          /\ UNCHANGED <<embedCalls, queryInputs, queryVector>>
       \/ /\ aoaiConfigured
          /\ embedCalls' = embedCalls + 1
          /\ queryInputs' = Append(queryInputs, query)
          /\ \E reply \in EmbedReplies :
                IF reply.raises
                THEN /\ HybridFails("embed", {"Embedding generation failed"})
                     /\ UNCHANGED queryVector
                ELSE /\ queryVector' = <<[dims |-> reply.dims, of |-> query]>>
                     /\ rpc' = "hybrid"
                     /\ UNCHANGED <<hybridFailed, printed, closes>>
    /\ UNCHANGED <<query, topK, documents, pending, lexFailed, searches,
                   prompt, chatCalls, answer>>

(* search_documents, lines 85-96: await search_client.search with the
   vector query. *)
HybridSearch ==
    /\ rpc = "hybrid"
    /\ \/ /\ searches' = Append(searches, SearchCall("hybrid", queryVector, TRUE, << >>))
          /\ HybridFails("call", {})
          /\ UNCHANGED pending
       \/ \E res \in SearchReplies(topK) :
             /\ searches' = Append(searches, SearchCall("hybrid", queryVector, FALSE, res))
             /\ pending' = res
             /\ rpc' = "hybrid_iter"
             /\ UNCHANGED <<hybridFailed, printed, closes>>
    /\ UNCHANGED <<query, topK, queryVector, documents, lexFailed, embedCalls,
                   prompt, chatCalls, answer>>

(* search_documents, lines 98-105: one step of async for result in results. *)
HybridIter ==
    /\ rpc = "hybrid_iter"
    /\ IF pending = << >>
       THEN /\ rpc' = "close"
            /\ UNCHANGED <<documents, pending, hybridFailed, printed, closes>>
       ELSE \/ /\ documents' = Append(documents, ToDocument(Head(pending)))
               /\ pending' = Tail(pending)
               /\ UNCHANGED <<rpc, hybridFailed, printed, closes>>
            \/ /\ HybridFails("iter", {})
               /\ UNCHANGED <<documents, pending>>
    /\ UNCHANGED <<query, topK, queryVector, lexFailed, searches, embedCalls,
                   prompt, chatCalls, answer>>

(* search_documents, lines 112-117 and 127-128: the text-only search. *)
Fallback ==
    /\ rpc = "fallback"
    /\ \/ /\ searches' = Append(searches, SearchCall("lexical", << >>, TRUE, << >>))
          /\ lexFailed' = "call"
          /\ printed' = printed \cup {"Text search also failed"}
          /\ rpc' = "close"
          /\ UNCHANGED pending
       \/ \E res \in SearchReplies(topK) :
             /\ searches' = Append(searches, SearchCall("lexical", << >>, FALSE, res))
             /\ pending' = res
             /\ rpc' = "lexical_iter"
             /\ UNCHANGED <<lexFailed, printed>>
    /\ UNCHANGED <<query, topK, queryVector, documents, hybridFailed, embedCalls,
                   closes, prompt, chatCalls, answer>>

(* search_documents, lines 119-128: one step of the fallback's async for. *)
LexicalIter ==
    /\ rpc = "lexical_iter"
    /\ IF pending = << >>
       THEN /\ rpc' = "close"
            /\ UNCHANGED <<documents, pending, lexFailed, printed>>
       ELSE \/ /\ documents' = Append(documents, ToDocument(Head(pending)))
               /\ pending' = Tail(pending)
               /\ UNCHANGED <<rpc, lexFailed, printed>>
            \/ /\ lexFailed' = "iter"
               /\ printed' = printed \cup {"Text search also failed"}
               /\ rpc' = "close"
               /\ UNCHANGED <<documents, pending>>
    /\ UNCHANGED <<query, topK, queryVector, hybridFailed, searches, embedCalls,
                   closes, prompt, chatCalls, answer>>

(* Mutant of Close: search_documents returns without closing the client. *)
Close_NotCalled ==
    /\ rpc = "close"
    /\ rpc' = "returned"
    /\ UNCHANGED <<query, topK, queryVector, documents, pending, hybridFailed, lexFailed,
                   searches, embedCalls, closes, prompt, chatCalls, answer, printed>>

(* search_documents, lines 130-133: finally close; return documents. *)
Close ==
    /\ rpc = "close"
    /\ closes' = closes + 1
    /\ rpc' = "returned"
    /\ UNCHANGED <<query, topK, queryVector, documents, pending, hybridFailed, lexFailed,
                   searches, embedCalls, prompt, chatCalls, answer, printed>>

(* Mutant of RagCheck: no test of the result list. *)
RagCheck_NoShortCircuit ==
    /\ rpc = "returned"
    /\ printed' = printed \cup {"Found relevant documents"}
    /\ prompt' = create_rag_prompt(query, documents)
    /\ rpc' = "chat"
    /\ UNCHANGED <<query, topK, queryVector, documents, pending, hybridFailed, lexFailed,
                   searches, embedCalls, closes, chatCalls, answer>>

(* rag_query, lines 162-171: if not documents: return; else the prompt. *)
RagCheck ==
    /\ rpc = "returned"
    /\ IF documents = << >>
       THEN /\ printed' = printed \cup {"No relevant documents found"}
            /\ answer' = NoAnswer
            /\ rpc' = "done"
            /\ UNCHANGED prompt
       ELSE /\ printed' = printed \cup {"Found relevant documents"}
            /\ prompt' = create_rag_prompt(query, documents)
            /\ rpc' = "chat"
            /\ UNCHANGED answer
    /\ UNCHANGED <<query, topK, queryVector, documents, pending, hybridFailed, lexFailed,
                   searches, embedCalls, closes, chatCalls>>

(* Mutant of RagChat: no handler around the chat call, its exception leaves
   rag_query. *)
RagChat_Propagates ==
    /\ rpc = "chat"
    /\ chatCalls' = Append(chatCalls, prompt)
    /\ \/ /\ rpc' = "raised"
          /\ UNCHANGED <<printed, answer>>
       \/ \E a \in Answers :
             /\ printed' = printed \cup {"Answer", "Sources"}
             /\ answer' = [none |-> FALSE, text |-> a]
             /\ rpc' = "done"
    /\ UNCHANGED <<query, topK, queryVector, documents, pending, hybridFailed, lexFailed,
                   searches, embedCalls, closes, prompt>>

(* rag_query, lines 175-197: chat.completions.create and the return. *)
RagChat ==
    /\ rpc = "chat"
    /\ chatCalls' = Append(chatCalls, prompt)
    /\ \/ /\ printed' = printed \cup {"Error generating response"}
          /\ answer' = NoAnswer
       \/ \E a \in Answers :
             /\ printed' = printed \cup {"Answer", "Sources"}
             /\ answer' = [none |-> FALSE, text |-> a]
    /\ rpc' = "done"
    /\ UNCHANGED <<query, topK, queryVector, documents, pending, hybridFailed, lexFailed,
                   searches, embedCalls, closes, prompt>>

(* main, lines 234-237, and translate_query: main passes what rag_query
   returned, the answer or None, whichever it is.  AzureKeyCredential(key),
   built outside the try block, raises TypeError when AZURE_TRANSLATOR_KEY
   is not set, before the client is called; text_translator.translate is
   called with the response as its only element: it returns (an answer
   only: None is no text to translate), or raises HttpResponseError, which
   is caught and printed, or raises another exception (the service cannot
   be reached, the body is not text), which is not caught, and main has no
   handler. *)
TranslateQuery ==
    /\ rpc = "done"
    /\ \/ /\ ~translatorKeySet
          /\ printed' = printed \cup {"Translated response"}
          /\ mainError' = "TypeError"
          /\ rpc' = "main_raised"
          /\ UNCHANGED translateCalls
       \/ /\ translatorKeySet
          /\ translateCalls' = Append(translateCalls, answer)
          /\ \/ /\ ~answer.none
                /\ printed' = printed \cup {"Translated response", "Text was translated to"}
                /\ mainError' = "none"
                /\ rpc' = "main_returned"
             \/ /\ printed' = printed \cup {"Translated response", "Error Code"}
                /\ mainError' = "none"
                /\ rpc' = "main_returned"
             \/ /\ printed' = printed \cup {"Translated response"}
                /\ mainError' = "ServiceRequestError"
                /\ rpc' = "main_raised"
    /\ UNCHANGED <<query, topK, queryVector, documents, pending, hybridFailed, lexFailed,
                   searches, embedCalls, closes, prompt, chatCalls, answer, queryInputs,
                   translatorKeySet>>

NextRag ==
    \/ StartRag /\ UNCHANGED <<ingestVars, normVars, mainVars, formVars>>
    \/ EmbedQuery /\ UNCHANGED <<ingestVars, normVars, translatorKeySet, mainError, translateCalls, formVars>>
    \/ TranslateQuery /\ UNCHANGED <<ingestVars, normVars, formVars>>
    \/ HybridSearch /\ UNCHANGED <<ingestVars, normVars, mainVars, formVars>>
    \/ HybridIter /\ UNCHANGED <<ingestVars, normVars, mainVars, formVars>>
    \/ Fallback /\ UNCHANGED <<ingestVars, normVars, mainVars, formVars>>
    \/ LexicalIter /\ UNCHANGED <<ingestVars, normVars, mainVars, formVars>>
    \/ Close /\ UNCHANGED <<ingestVars, normVars, mainVars, formVars>>
    \/ RagCheck /\ UNCHANGED <<ingestVars, normVars, mainVars, formVars>>
    \/ RagChat /\ UNCHANGED <<ingestVars, normVars, mainVars, formVars>>

(* The index as a complete ingestion of the files left it. *)
RECURSIVE DocsOf(_)
DocsOf(ps) ==
    IF ps = << >> THEN << >>
    ELSE <<file_to_doc(Head(ps), OkReply)>> \o DocsOf(Tail(ps))

Ingested ==
    LET ds == DocsOf(sorted(CHOOSE o \in Perms(Globbed) : TRUE))
    IN  Upsert(EmptyStore, ds, [i \in DOMAIN ds |-> TRUE])

InitRag ==
    /\ \E n \in 0..MaxFiles : fs = [f \in 1..n |-> [mtime |-> 1, content |-> InitialContent(f)]]
    /\ aoaiConfigured \in BOOLEAN
    /\ SearchConfigured
    /\ indexExists = TRUE
    /\ indexSchema = IndexDefinition
    /\ store = Ingested
    /\ InitProc
    /\ runs = 0
    /\ touches = 0
    /\ cleanRuns = 0
    /\ calls = << >>
    /\ rpc = "off"
    /\ query \in Queries
    /\ topK = 0
    /\ queryVector = << >>
    /\ documents = << >>
    /\ pending = << >>
    /\ hybridFailed = "no"
    /\ lexFailed = "no"
    /\ searches = << >>
    /\ embedCalls = 0
    /\ closes = 0
    /\ prompt = << >>
    /\ chatCalls = << >>
    /\ answer = NoAnswer
    /\ printed = {}
    /\ queryInputs = << >>
    /\ translatorKeySet \in BOOLEAN
    /\ mainError = "none"
    /\ translateCalls = << >>
    /\ InitFormIdle

SpecRag == InitRag /\ [][NextRag]_vars

(***************************************************************************)
(* create_rag_prompt as a function of the query and of the documents,      *)
(* with contents around the cut at PromptCap characters.                   *)
(***************************************************************************)
LongText(n) == [i \in 1..n |-> 97 + (i % 26)]

PromptLengths ==
    {0, PromptCap - 200, PromptCap - 1, PromptCap, PromptCap + 1, PromptCap + 500}

PromptDocs ==
    {[id |-> sha1(<<[style |-> "abs", file |-> 1], 1, n>>),
      content |-> LongText(n),
      title |-> FileName(1),
      path |-> [style |-> "abs", file |-> 1],
      score |-> 1] : n \in PromptLengths}

InitPrompt ==
    /\ fs = [f \in {} |-> << >>]
    /\ aoaiConfigured = TRUE
    /\ SearchConfigured
    /\ indexExists = TRUE
    /\ indexSchema = IndexDefinition
    /\ store = EmptyStore
    /\ InitProc
    /\ runs = 0
    /\ touches = 0
    /\ cleanRuns = 0
    /\ calls = << >>
    /\ rpc = "off"
    /\ query \in Queries
    /\ topK = 0
    /\ queryVector = << >>
    /\ documents \in UNION {[1..n -> PromptDocs] : n \in 0..MaxPromptDocs}
    /\ pending = << >>
    /\ hybridFailed = "no"
    /\ lexFailed = "no"
    /\ searches = << >>
    /\ embedCalls = 0
    /\ closes = 0
    /\ prompt = << >>
    /\ chatCalls = << >>
    /\ answer = NoAnswer
    /\ printed = {}
    /\ queryInputs = << >>
    /\ translatorKeySet = TRUE
    /\ mainError = "none"
    /\ translateCalls = << >>
    /\ InitFormIdle

(* One call of create_rag_prompt(query, documents). *)
CreateRagPrompt ==
    /\ rpc = "off"
    /\ prompt' = create_rag_prompt(query, documents)
    /\ rpc' = "built"
    /\ UNCHANGED <<ingestVars, normVars, query, topK, queryVector, documents, pending,
                   hybridFailed, lexFailed, searches, embedCalls, closes, chatCalls,
                   answer, printed, mainVars, formVars>>

NextPrompt == CreateRagPrompt

SpecPrompt == InitPrompt /\ [][NextPrompt]_vars

(***************************************************************************)
(* The two places that call embeddings.create, on texts around the cap of  *)
(* get_embedding: file_to_doc on a file of the ingestion run, and          *)
(* search_documents on the query.                                          *)
(***************************************************************************)
EmbedLengths ==
    {1, EmbedInputCap - 1, EmbedInputCap, EmbedInputCap + 1, EmbedInputCap + 500}

InitEmbed ==
    /\ \E n \in EmbedLengths : fs = [f \in {1} |-> [mtime |-> 1, content |-> LongText(n)]]
    /\ aoaiConfigured \in BOOLEAN
    /\ SearchConfigured
    /\ indexExists = TRUE
    /\ indexSchema = IndexDefinition
    /\ store = EmptyStore
    /\ pc = [p \in Procs |-> IF p = 1 THEN "Embedding" ELSE "off"]
    /\ batchSize = [p \in Procs |-> 1]
    /\ paths = [p \in Procs |-> IF p = 1 THEN <<[style |-> "abs", file |-> 1]>> ELSE << >>]
    /\ cursor = [p \in Procs |-> IF p = 1 THEN 1 ELSE 0]
    /\ doc = [p \in Procs |-> << >>]
    /\ batch = [p \in Procs |-> << >>]
    /\ uploaded = [p \in Procs |-> 0]
    /\ fatal = [p \in Procs |-> NoError]
    /\ upserts = [p \in Procs |-> << >>]
    /\ indexCalls = [p \in Procs |-> IF p = 1 THEN <<IndexCall("get_index", "found")>> ELSE << >>]
    /\ embedInputs = [p \in Procs |-> << >>]
    /\ reported = [p \in Procs |-> << >>]
    /\ runs = 1
    /\ touches = 0
    /\ cleanRuns = 0
    /\ calls = << >>
    /\ rpc = "embed"
    /\ \E n \in EmbedLengths : query = LongText(n)
    /\ topK = RagTopK
    /\ queryVector = << >>
    /\ documents = << >>
    /\ pending = << >>
    /\ hybridFailed = "no"
    /\ lexFailed = "no"
    /\ searches = << >>
    /\ embedCalls = 0
    /\ closes = 0
    /\ prompt = << >>
    /\ chatCalls = << >>
    /\ answer = NoAnswer
    /\ printed = {}
    /\ queryInputs = << >>
    /\ translatorKeySet = TRUE
    /\ mainError = "none"
    /\ translateCalls = << >>
    /\ InitFormIdle

NextEmbed ==
    \/ FileToDoc(1) /\ UNCHANGED <<normVars, ragVars, mainVars, formVars>>
    \/ EmbedQuery /\ UNCHANGED <<ingestVars, normVars, translatorKeySet, mainError, translateCalls, formVars>>

SpecEmbed == InitEmbed /\ [][NextEmbed]_vars

(* search_documents has returned: documents is what it returned. *)
Returned == rpc \in {"returned", "chat", "done"}

(***************************************************************************)
(* C4.  Fallback on vector failure: search_documents never raises; when    *)
(* the query embedding is unavailable (configuration missing, client or    *)
(* embedding call raising) or the hybrid search call raises, and the       *)
(* text-only search succeeds, exactly one text-only search was issued,     *)
(* with the query text and top_k and no vector, and its results are what   *)
(* is returned; with the configuration missing no embedding call is made.  *)
(***************************************************************************)
C4_FallbackOnVectorFailure ==
    /\ rpc # "raised"
    /\ hybridFailed = "config" => embedCalls = 0
    /\ (Returned /\ hybridFailed \in {"config", "client", "embed", "call"} /\ lexFailed = "no") =>
          LET last == searches[Len(searches)]
          IN  /\ last.mode = "lexical"
              /\ last.vector = << >>
              /\ last.text = query
              /\ last.top = topK
              /\ ~last.raised
              /\ Cardinality({i \in DOMAIN searches : searches[i].vector = << >>}) = 1
              /\ documents = [i \in DOMAIN last.results |-> ToDocument(last.results[i])]

(* The hybrid search call raised and the text-only search returned results. *)
C4_Witness ==
    /\ Returned
    /\ hybridFailed = "call"
    /\ lexFailed = "no"
    /\ Len(documents) >= 2

(***************************************************************************)
(* C5.  Double failure, as claimed: when the hybrid attempt raised, at     *)
(* whatever point (before the search call, at the call, or while its       *)
(* results were iterated), and the text-only search call raised too,       *)
(* search_documents returns an empty list.                                 *)
(***************************************************************************)
C5_DoubleFailureReturnsEmpty ==
    (Returned /\ hybridFailed \in {"config", "client", "embed", "call", "iter"}
              /\ lexFailed = "call") => documents = << >>

(***************************************************************************)
(* C6.  Empty-result short circuit: the chat capability is called only     *)
(* with documents at hand; a rag_query whose search returned no document   *)
(* ends with no chat call, no prompt built, the line "No relevant          *)
(* documents found" printed and no answer returned.                        *)
(***************************************************************************)
C6_EmptyResultShortCircuit ==
    /\ rpc = "chat" => documents # << >>
    /\ (rpc = "done" /\ documents = << >>) =>
          /\ chatCalls = << >>
          /\ prompt = << >>
          /\ "No relevant documents found" \in printed
          /\ answer = NoAnswer

(* rag_query ended on an empty result of a search over a non-empty index. *)
C6_Witness ==
    /\ rpc = "done"
    /\ documents = << >>
    /\ DOMAIN store # {}
    /\ \E i \in DOMAIN searches : ~searches[i].raised

(***************************************************************************)
(* C7.  Context truncation: the prompt is the fixed text around the        *)
(* documents' entries, joined by blank lines in order, where a document    *)
(* whose content is longer than 1000 characters contributes its first 1000 *)
(* characters followed by "..." and any other document its whole content;  *)
(* no document contributes more than 1003 content characters.              *)
(***************************************************************************)
C7_ContextTruncation ==
    rpc = "built" =>
        LET part(c) == IF Len(c) > 1000 THEN SubSeq(c, 1, 1000) \o <<46, 46, 46>> ELSE c
            entry(d) == DocLabel \o d.title \o NewLine \o part(d.content)
        IN  /\ prompt = PromptHead \o Join([i \in DOMAIN documents |-> entry(documents[i])])
                            \o PromptMid \o query \o PromptTail
            /\ \A i \in DOMAIN documents : Len(part(documents[i].content)) <= 1003
            /\ Len(prompt) <= Len(PromptHead) + Len(PromptMid) + Len(query) + Len(PromptTail)
                                + Len(documents) * (Len(DocLabel) + Len(FileName(1)) + 1 + 1003 + 2)

(* A prompt built from a document of 1500 characters and one of 800. *)
C7_Witness ==
    /\ rpc = "built"
    /\ \E i, j \in DOMAIN documents :
          /\ Len(documents[i].content) = 1500
          /\ Len(documents[j].content) = 800

(***************************************************************************)
(* C13.  Embedding input truncation, as claimed: every text sent to        *)
(* embeddings.create, for a file during ingestion or for the query during  *)
(* retrieval, is the text itself when it has at most 16,000 characters and *)
(* its first 16,000 characters otherwise.                                  *)
(***************************************************************************)
C13_EmbedInputTruncated ==
    LET cut(text) == IF Len(text) > 16000 THEN SubSeq(text, 1, 16000) ELSE text
    IN  /\ \A p \in Procs : \A i \in DOMAIN embedInputs[p] :
              embedInputs[p][i] = cut(fs[paths[p][i].file].content)
        /\ \A i \in DOMAIN queryInputs : queryInputs[i] = cut(query)

(***************************************************************************)
(* C14.  Embedding dimension check, as claimed: a vector whose length is   *)
(* not EMBED_DIMS is never attached to a document, is never kept as the    *)
(* query vector and is never sent in a vector search.                      *)
(***************************************************************************)
C14_DimensionChecked ==
    /\ \A p \in Procs : \A i \in DOMAIN doc[p] : doc[p][i].embedding.dims = EMBED_DIMS
    /\ \A id \in DOMAIN store : store[id].embedding.dims = EMBED_DIMS
    /\ \A i \in DOMAIN queryVector : queryVector[i].dims = EMBED_DIMS
    /\ \A i \in DOMAIN searches :
          \A j \in DOMAIN searches[i].vector : searches[i].vector[j].dims = EMBED_DIMS

(***************************************************************************)
(* C15.  Chat failure is contained: once the chat call has been made,      *)
(* rag_query has returned; it returned no answer exactly when the call     *)
(* raised, and then the error was printed; no exception leaves rag_query.  *)
(***************************************************************************)
C15_ChatFailureContained ==
    chatCalls # << >> =>
        /\ rpc \in {"done", "main_returned", "main_raised"}
        /\ Len(chatCalls) = 1
        /\ answer.none <=> "Error generating response" \in printed
        /\ answer.none => "Answer" \notin printed

(* The chat call raised: rag_query returned None after printing the error. *)
C15_Witness ==
    /\ rpc = "done"
    /\ Len(chatCalls) = 1
    /\ answer = NoAnswer
    /\ "Error generating response" \in printed

(***************************************************************************)
(* C16.  Answer with sources, as claimed: what a successful rag_query      *)
(* returns to its caller holds the answer text and the list of the         *)
(* documents the prompt was built from, in search order.                   *)
(***************************************************************************)
C16_AnswerWithSources ==
    (rpc = "done" /\ ~answer.none) =>
        /\ "text" \in DOMAIN answer
        /\ "sources" \in DOMAIN answer
        /\ answer.sources = documents

(***************************************************************************)
(* C17.  Translation failure is independent, as claimed: whatever fails in *)
(* translate_query, main returns and no exception leaves it.               *)
(***************************************************************************)
C17_TranslationFailureContained ==
    /\ rpc # "main_raised"
    /\ mainError = "none"

(***************************************************************************)
(* C18.  Ingestion state machine, as claimed: a run moves only along       *)
(* Idle -> SchemaEnsured -> Scanning -> Embedding -> Batching -> Uploading *)
(* -> Done, Uploading -> Batching and Embedding -> Fatal.  The steps that  *)
(* end a run (into Done or Fatal) are left aside here: the statement       *)
(* already fails on the steps in the middle of a run in which nothing      *)
(* raises.                                                                 *)
(***************************************************************************)
C18_ClaimedTransitions ==
    {<<"Idle", "SchemaEnsured">>, <<"SchemaEnsured", "Scanning">>,
     <<"Scanning", "Embedding">>, <<"Embedding", "Batching">>,
     <<"Batching", "Uploading">>, <<"Uploading", "Done">>,
     <<"Uploading", "Batching">>, <<"Embedding", "Fatal">>}

C18_StepAsClaimed ==
    \A p \in Procs :
        (Phase(p)' # Phase(p) /\ Phase(p)' \notin {"Fatal", "Done"}) =>
            <<Phase(p), Phase(p)'>> \in C18_ClaimedTransitions \cup StartOfRun

C18_StateMachineAsClaimed == [][C18_StepAsClaimed]_vars

(***************************************************************************)
(* C18, amended.  A run moves only along Idle -> SchemaEnsured -> Scanning *)
(* -> Embedding -> Batching -> Uploading -> Done, the loops Uploading ->   *)
(* Embedding and Batching -> Embedding (each document is embedded when the *)
(* loop asks for it), Scanning -> Done (no file), and to Fatal from Idle,  *)
(* Embedding and Uploading; nothing is scanned, embedded or upserted       *)
(* before ensure_index has returned; and at Done every document that was   *)
(* batched has been submitted.                                             *)
(***************************************************************************)
C18_Transitions ==
    {<<"Idle", "SchemaEnsured">>, <<"Idle", "Fatal">>,
     <<"SchemaEnsured", "Scanning">>,
     <<"Scanning", "Embedding">>, <<"Scanning", "Done">>,
     <<"Embedding", "Batching">>, <<"Embedding", "Fatal">>,
     <<"Batching", "Uploading">>, <<"Batching", "Embedding">>,
     <<"Uploading", "Embedding">>, <<"Uploading", "Done">>, <<"Uploading", "Fatal">>}

C18_Step ==
    \A p \in Procs :
        Phase(p)' # Phase(p) => <<Phase(p), Phase(p)'>> \in C18_Transitions \cup StartOfRun

C18_EnsuredFirst ==
    \A p \in Procs :
        /\ (\/ Phase(p) \in {"SchemaEnsured", "Scanning", "Embedding", "Batching", "Uploading", "Done"}
            \/ paths[p] # << >>
            \/ embedInputs[p] # << >>
            \/ upserts[p] # << >>) => (EnsureIndexReturned(p) /\ indexExists)
        /\ pc[p] = "Done" => Range(PathFiles(p)) \subseteq Range(Submitted(p))
        /\ Phase(p) = "Done" => Len(Submitted(p)) = Len(paths[p])

C18_StateMachine == []C18_EnsuredFirst /\ [][C18_Step]_vars

(* A finished run that created the index and went twice round the loop:
   three documents embedded, batches of two. *)
C18_Witness ==
    /\ pc[1] = "Done"
    /\ batchSize[1] = 2
    /\ Len(embedInputs[1]) = 3
    /\ \E i \in DOMAIN indexCalls[1] : indexCalls[1][i].result = "created"

(***************************************************************************)
(* C19.  Deterministic upload order: in a run that reached Done the        *)
(* batches, in the order of the upsert calls, are the consecutive blocks   *)
(* of batch_size files of the sorted list of the files (the last block     *)
(* being shorter when the batch size does not divide the count), so each   *)
(* file is submitted once and the boundaries depend on the file set and    *)
(* the batch size only.                                                    *)
(***************************************************************************)
C19_DeterministicUploadOrder ==
    \A p \in Procs :
        pc[p] = "Done" =>
            LET N == Cardinality(DOMAIN fs)
                B == batchSize[p]
            IN  /\ Submitted(p) = SortedFiles
                /\ \A i \in DOMAIN upserts[p] :
                      upserts[p][i].files =
                          [j \in 1..Min(B, N - (i - 1) * B) |-> (i - 1) * B + j]

(* Three files in batches of two: the calls carried files 1, 2 and file 3. *)
C19_Witness ==
    /\ pc[1] = "Done"
    /\ Len(upserts[1]) = 2
    /\ upserts[1][1].files = <<1, 2>>
    /\ upserts[1][2].files = <<3>>

(***************************************************************************)
(* C20.  Cumulative count reporting, as claimed: a count is printed after  *)
(* each upsert call and at the completion of the run, and the count        *)
(* printed is the number of records reported as succeeded so far.          *)
(***************************************************************************)
C20_CountReportedAtCompletion ==
    \A p \in Procs :
        /\ Len(reported[p]) = Len(upserts[p])
        /\ pc[p] = "Done" =>
              /\ reported[p] # << >>
              /\ reported[p][Len(reported[p])] = SumSucceeded(upserts[p])

(***************************************************************************)
(* C20, amended.  A count is printed after each upsert call and at no      *)
(* other time (a run without files prints none, and nothing is printed     *)
(* after the last call but "Done."); the count printed after a call is the *)
(* number of records reported as succeeded over the calls so far, never    *)
(* less than the count before and never more than the number of documents  *)
(* submitted so far; after a finished run that made a call the last count  *)
(* is the total of the run.                                                *)
(***************************************************************************)
C20_CumulativeCount ==
    \A p \in Procs :
        /\ Len(reported[p]) = Len(upserts[p])
        /\ \A i \in DOMAIN reported[p] :
              /\ reported[p][i] = SumSucceeded(Prefix(upserts[p], i))
              /\ i > 1 => reported[p][i] >= reported[p][i - 1]
              /\ reported[p][i] <= Len(Flatten([j \in 1..i |-> upserts[p][j].files]))
        /\ (pc[p] = "Done" /\ paths[p] = << >>) => reported[p] = << >>
        /\ (pc[p] = "Done" /\ paths[p] # << >>) =>
              reported[p][Len(reported[p])] = uploaded[p]

(* A finished run of two calls whose first batch had a failed record: the
   counts printed were 1 and 2, for three documents submitted. *)
C20_Witness ==
    /\ pc[1] = "Done"
    /\ reported[1] = <<1, 2>>
    /\ Len(Submitted(1)) = 3

(***************************************************************************)
(* Two ingest-data.py processes started without coordination over the same *)
(* directory, against the same service: their steps interleave in any      *)
(* order.  The files do not change while they run.                         *)
(***************************************************************************)
StartProcess(p) ==
    /\ pc[p] = "off"
    /\ pc' = [pc EXCEPT ![p] = "import"]
    /\ runs' = runs + 1
    /\ UNCHANGED <<envVars, batchSize, paths, cursor, doc, batch, uploaded, fatal, upserts,
                   logVars, touches, cleanRuns>>

NextConcurrent ==
    \/ \E p \in Procs : StartProcess(p) /\ UNCHANGED <<normVars, ragVars, mainVars, formVars>>
    \/ \E p \in Procs : IngestStep(p) /\ UNCHANGED <<normVars, ragVars, mainVars, formVars>>

InitConcurrent ==
    /\ \E n \in 0..MaxShared :
          fs = [f \in 1..n |-> [mtime |-> 1, content |-> InitialContent(f)]]
    /\ aoaiConfigured = TRUE
    /\ SearchConfigured
    /\ indexExists \in BOOLEAN
    /\ indexSchema = IF indexExists THEN IndexDefinition ELSE NoSchema
    /\ store = EmptyStore
    /\ InitProc
    /\ runs = 0
    /\ touches = 0
    /\ cleanRuns = 0
    /\ calls = << >>
    /\ InitRagIdle
    /\ InitFormIdle

SpecConcurrent == InitConcurrent /\ [][NextConcurrent]_vars

(***************************************************************************)
(* scrape_contact_form of contact-form-scraper.py and contact-form.py:     *)
(* the fields extract_field_info gave for the elements of the page, and    *)
(* the loop that removes duplicates from them.                             *)
(***************************************************************************)
FieldNames == {"", "email"}

FieldIds == {"", "Email"}

(* get_attribute('type') or 'text' *)
FieldTypes == {"text", "email"}

(* A field_info, reduced to the keys the loop reads and to form_index,
   which tells two fields of the same identifier apart. *)
FieldInfos == [name : FieldNames, id : FieldIds, type : FieldTypes, form_index : 0..1]

(* Mutant of identifier: the type is left out ("based on name and id"). *)
identifier_NameAndId(field) == <<field.name, field.id, "">>

(* (field.get('name', ''), field.get('id', ''), field.get('type', '')) *)
identifier(field) == <<field.name, field.id, field.type>>

(* The page is loaded and every element's field_info is appended to
   all_fields; or something raises on the way and the handler returns []. *)
ExtractFields ==
    /\ fpc = "off"
    /\ \/ /\ \E n \in 0..MaxFields : all_fields' \in [1..n -> FieldInfos]
          /\ fpc' = "dedupe"
       \/ /\ fpc' = "returned"
          /\ UNCHANGED all_fields
    /\ UNCHANGED <<unique_fields, seen, fieldCursor>>

(* One turn of: for field in all_fields. *)
DedupeStep ==
    /\ fpc = "dedupe"
    /\ fieldCursor < Len(all_fields)
    /\ LET field == all_fields[fieldCursor + 1]
       IN  IF identifier(field) \notin seen
           THEN /\ seen' = seen \cup {identifier(field)}
                /\ unique_fields' = Append(unique_fields, field)
           ELSE UNCHANGED <<seen, unique_fields>>
    /\ fieldCursor' = fieldCursor + 1
    /\ UNCHANGED <<fpc, all_fields>>

(* return unique_fields *)
ReturnFields ==
    /\ fpc = "dedupe"
    /\ fieldCursor = Len(all_fields)
    /\ fpc' = "returned"
    /\ UNCHANGED <<all_fields, unique_fields, seen, fieldCursor>>

NextDedupe ==
    \/ ExtractFields /\ UNCHANGED <<ingestVars, normVars, ragVars, mainVars>>
    \/ DedupeStep /\ UNCHANGED <<ingestVars, normVars, ragVars, mainVars>>
    \/ ReturnFields /\ UNCHANGED <<ingestVars, normVars, ragVars, mainVars>>

InitDedupe ==
    /\ fs = [f \in {} |-> << >>]
    /\ aoaiConfigured = TRUE
    /\ SearchConfigured
    /\ indexExists = FALSE
    /\ indexSchema = NoSchema
    /\ store = EmptyStore
    /\ InitProc
    /\ runs = 0
    /\ touches = 0
    /\ cleanRuns = 0
    /\ calls = << >>
    /\ InitRagIdle
    /\ InitFormIdle

SpecDedupe == InitDedupe /\ [][NextDedupe]_vars

(***************************************************************************)
(* The steps of one rag_query invocation, as positions of the pipeline.    *)
(***************************************************************************)
Stage ==
    CASE rpc = "off" -> 0
      [] rpc = "embed" -> 1
      [] rpc \in {"hybrid", "hybrid_iter", "fallback", "lexical_iter", "close"} -> 2
      [] rpc = "returned" -> 3
      [] rpc = "chat" -> 4
      [] OTHER -> 5

(* The least position >= from at which piece occurs in text, 0 if none. *)
FindAt(piece, text, from) ==
    LET at == {i \in from..(Len(text) + 1 - Len(piece)) :
                  SubSeq(text, i, i + Len(piece) - 1) = piece}
    IN  IF at = {} THEN 0 ELSE CHOOSE i \in at : \A j \in at : i <= j

(* The pieces occur in text one after the other, without overlap. *)
RECURSIVE InOrder(_, _, _)
InOrder(pieces, text, from) ==
    IF pieces = << >> THEN TRUE
    ELSE LET at == FindAt(Head(pieces), text, from)
         IN  /\ at # 0
             /\ InOrder(Tail(pieces), text, at + Len(Head(pieces)))

(* What the prompt has to show of document d: its title and its content,
   cut at PromptCap characters. *)
Shown(d) ==
    d.title \o NewLine \o
        (IF Len(d.content) > PromptCap THEN Prefix(d.content, PromptCap) ELSE d.content)

(***************************************************************************)
(* C21.  RagQuery lifecycle order: one rag_query moves only forward        *)
(* through embed, search, context assembly, chat and answer; the embedding *)
(* is asked for at most once and before any search, the chat capability    *)
(* is called at most once, only after search_documents has closed its      *)
(* client and returned, and its prompt contains the title and the          *)
(* (possibly cut) content of every returned document, in the order of the  *)
(* returned list, followed by the original query.                          *)
(***************************************************************************)
C21_ChatAfterSearch ==
    /\ embedCalls <= 1
    /\ Stage <= 1 => searches = << >>
    /\ Stage <= 3 => prompt = << >> /\ chatCalls = << >>
    /\ Stage = 4 => chatCalls = << >>
    /\ Len(chatCalls) <= 1
    /\ ~answer.none => Len(chatCalls) = 1
    /\ Stage >= 3 => closes = 1
    /\ chatCalls # << >> =>
          /\ Stage = 5
          /\ closes = 1
          /\ chatCalls[1] = prompt
          /\ InOrder([i \in DOMAIN documents |-> Shown(documents[i])] \o <<query>>,
                     chatCalls[1], 1)

C21_StepForward == Stage' >= Stage /\ (chatCalls' # chatCalls => Stage = 4)

C21_LifecycleOrder == []C21_ChatAfterSearch /\ [][C21_StepForward]_vars

(* The chat was called with a prompt over three documents. *)
C21_Witness ==
    /\ Len(chatCalls) = 1
    /\ Len(documents) = 3
    /\ ~answer.none
    /\ embedCalls = 1

(* The id a run over the files as they first were gives file f. *)
FirstId(f) ==
    sha1(<<[style |-> "abs", file |-> f], 1, Len(InitialContent(f))>>)

(* The id a run over the files as they are gives file f. *)
CurrentId(f) == sha1(IdInput([style |-> "abs", file |-> f]))

(* The modification time or the size of f is not what it first was. *)
StatChanged(f) ==
    \/ fs[f].mtime # 1
    \/ Len(fs[f].content) # Len(InitialContent(f))

(***************************************************************************)
(* C22.  Identity change orphans the old record: after complete runs       *)
(* before and after the files were rewritten, a file whose modification    *)
(* time or size changed has a new id, different from its first one, and    *)
(* the store holds both the record of its first size under the first       *)
(* id and the record of its present content under the new id; no step of   *)
(* an ingestion run removes a record from the store.                       *)
(***************************************************************************)
C22_BothRecordsKept ==
    cleanRuns = MaxRuns =>
        \A f \in DOMAIN fs :
            /\ CurrentId(f) \in DOMAIN store
            /\ store[CurrentId(f)].content = fs[f].content
            /\ FirstId(f) \in DOMAIN store
            /\ StatChanged(f) =>
                  /\ CurrentId(f) # FirstId(f)
                  /\ store[FirstId(f)].length = Len(InitialContent(f))
                  /\ store[FirstId(f)].path = store[CurrentId(f)].path

C22_StepKeepsRecords ==
    \A id \in DOMAIN store :
        /\ id \in DOMAIN store'
        /\ store'[id] # store[id] => \E p \in Procs : upserts'[p] # upserts[p]

AbortedAtFile(p) ==
    /\ pc[p] = "Fatal"
    /\ fatal[p].kind \in {"IOError", "RuntimeError: Failed to create embedding"}

(***************************************************************************)
(* C26.  Dropped pending batch on abort: a run with batch size B that      *)
(* ended on the error of the k-th file in sorted order (counted from 0)    *)
(* has submitted exactly the first floor(k/B)*B files in sorted order; the *)
(* k mod B documents after them are in its accumulator, not submitted, and *)
(* the ended run submits nothing more.                                     *)
(***************************************************************************)
C26_SubmittedBeforeAbort ==
    \A p \in Procs :
        AbortedAtFile(p) =>
            LET k == cursor[p] - 1
                B == batchSize[p]
                full == (k \div B) * B
            IN  /\ SortedFiles[k + 1] = fatal[p].file
                /\ Submitted(p) = SubSeq(SortedFiles, 1, full)
                /\ Len(batch[p]) = k % B
                /\ [i \in DOMAIN batch[p] |-> batch[p][i].path.file]
                      = SubSeq(SortedFiles, full + 1, k)
                /\ \A i \in DOMAIN batch[p] :
                      batch[p][i].path.file \notin Range(Submitted(p))

C26_StepNothingMore ==
    \A p \in Procs :
        (AbortedAtFile(p) /\ pc'[p] = "Fatal") =>
            /\ upserts'[p] = upserts[p]
            /\ store' = store

C26_PendingBatchDropped == []C26_SubmittedBeforeAbort /\ [][C26_StepNothingMore]_vars

(* A run in batches of two ended on its second file: the document of the
   first file is in the accumulator and was never submitted. *)
C26_Witness ==
    \E p \in Procs :
        /\ AbortedAtFile(p)
        /\ batchSize[p] = 2
        /\ cursor[p] = 2
        /\ Len(batch[p]) = 1
        /\ upserts[p] = << >>
        /\ batch[p][1].id \notin DOMAIN store

(***************************************************************************)
(* C27.  Batch size invariant: whatever the batch size B >= 1, every       *)
(* upsert call of upload_documents carries at least one and at most B      *)
(* documents, the accumulator never holds more than B documents, and a     *)
(* run over no file makes no upsert call.                                  *)
(***************************************************************************)
C27_BatchSizeInvariant ==
    \A p \in Procs :
        /\ batchSize[p] >= 1
        /\ Len(batch[p]) <= batchSize[p]
        /\ \A i \in DOMAIN upserts[p] :
              /\ Len(upserts[p][i].files) >= 1
              /\ Len(upserts[p][i].files) <= batchSize[p]
        /\ (pc[p] \in {"Embedding", "Batching", "Uploading", "Final", "Done"}
               /\ paths[p] = << >>) => upserts[p] = << >>
        /\ pc[p] = "Uploading" => Len(batch[p]) = batchSize[p]

(* A run with batches of two made a call of two documents and then a call
   of one. *)
C27_Witness ==
    \E p \in Procs :
        /\ batchSize[p] = 2
        /\ Len(upserts[p]) = 2
        /\ Len(upserts[p][1].files) = 2
        /\ Len(upserts[p][2].files) = 1

(* The documents of the first n results of a search call. *)
DocumentsOf(call, n) == [i \in 1..n |-> ToDocument(call.results[i])]

(***************************************************************************)
(* C25.  Bounded, duplicate-free results, as claimed: whatever the         *)
(* embedding call, the hybrid search and the text-only search did (a       *)
(* hybrid search failing while its results are iterated included), the     *)
(* list search_documents returns holds at most top_k documents, no         *)
(* document id twice, and only results of one search call.                 *)
(***************************************************************************)
C25_BoundedDuplicateFree ==
    Returned =>
        /\ Len(documents) <= topK
        /\ \A i, j \in DOMAIN documents : documents[i].id = documents[j].id => i = j
        /\ \/ documents = << >>
           \/ \E c \in DOMAIN searches : \E n \in 0..Len(searches[c].results) :
                 documents = DocumentsOf(searches[c], n)

(***************************************************************************)
(* C28.  Translation only of a produced answer, as claimed: the            *)
(* translation client is called only with an answer text; after a          *)
(* rag_query that returned no answer (no document found, or the chat call  *)
(* failed) it is not called.                                               *)
(***************************************************************************)
C28_TranslationOnlyOfAnswer ==
    \A i \in DOMAIN translateCalls : ~translateCalls[i].none

(* The positions of the search calls of one mode in the log. *)
CallsOf(mode) == {i \in DOMAIN searches : searches[i].mode = mode}

(***************************************************************************)
(* C29.  Search client release: search_documents closes the client it      *)
(* created exactly once, on every path (hybrid success, fallback success,  *)
(* both searches failing), and not before its last search call; once the   *)
(* client is closed no search call is issued; an invocation issues at most *)
(* one hybrid and at most one text-only search call, the text-only one     *)
(* only after the hybrid attempt failed.                                   *)
(***************************************************************************)
C29_ClosedOnce ==
    /\ closes = (IF Stage >= 3 THEN 1 ELSE 0)
    /\ Cardinality(CallsOf("hybrid")) <= 1
    /\ Cardinality(CallsOf("lexical")) <= 1
    /\ \A i \in CallsOf("lexical") :
          /\ hybridFailed # "no"
          /\ \A j \in CallsOf("hybrid") : j < i
    /\ (Stage >= 3 /\ hybridFailed = "no") => Cardinality(CallsOf("hybrid")) = 1
    /\ (Stage >= 3 /\ hybridFailed # "no") => Cardinality(CallsOf("lexical")) = 1

C29_StepNoSearchAfterClose ==
    /\ closes >= 1 => searches' = searches
    /\ closes' # closes => (rpc = "close" /\ rpc' = "returned")

C29_SearchClientRelease == []C29_ClosedOnce /\ [][C29_StepNoSearchAfterClose]_vars

(* search_documents returned after both searches failed, the hybrid one
   while its results were iterated. *)
C29_Witness ==
    /\ rpc = "returned"
    /\ hybridFailed = "iter"
    /\ lexFailed = "call"
    /\ Len(searches) = 2
    /\ closes = 1

(* The results of the calls of one operation on the index, all processes. *)
IndexResults(op) ==
    UNION {{<<p, i>> : i \in {j \in DOMAIN indexCalls[p] : indexCalls[p][j].op = op}} :
              p \in Procs}

(* No call on the index failed for a reason of the service itself. *)
ServiceHealthy ==
    \A p \in Procs : \A i \in DOMAIN indexCalls[p] : indexCalls[p][i].result # "error"

(***************************************************************************)
(* C23.  Concurrent ingestion runs converge: when two processes started    *)
(* without coordination over the same unchanged files have both run to the *)
(* end with every record accepted, whatever the order in which their       *)
(* upsert calls reached the store, the store holds exactly one record per  *)
(* file, with that file's content, and both processes gave each file the   *)
(* same id.                                                                *)
(***************************************************************************)
C23_ConcurrentRunsConverge ==
    (\A p \in Procs : pc[p] = "Done" /\ CleanRun(upserts[p])) =>
        /\ Cardinality(DOMAIN store) = Cardinality(DOMAIN fs)
        /\ \A f \in DOMAIN fs :
              /\ Cardinality({id \in DOMAIN store : store[id].path.file = f}) = 1
              /\ CurrentId(f) \in DOMAIN store
              /\ store[CurrentId(f)].content = fs[f].content
        /\ \A p \in Procs : Flatten([i \in DOMAIN upserts[p] |-> upserts[p][i].ids])
                              \in Perms({CurrentId(f) : f \in DOMAIN fs})

(* Both processes ran to the end over two files, in batches of different
   sizes, their upsert calls interleaved. *)
C23_Witness ==
    /\ \A p \in Procs : pc[p] = "Done" /\ CleanRun(upserts[p])
    /\ Cardinality(DOMAIN fs) = 2
    /\ batchSize[1] = 1
    /\ batchSize[2] = 2
    /\ Len(upserts[1]) = 2
    /\ Len(upserts[2]) = 1

(***************************************************************************)
(* C24.  Concurrent process start, as claimed: when two processes call     *)
(* ensure_index at the same time and the index does not exist yet,         *)
(* whatever the order of their get_index and create_index calls, neither   *)
(* call ends with an error (the service itself answering every call) and   *)
(* the index is created exactly once.                                      *)
(***************************************************************************)
C24_ConcurrentEnsureIndex ==
    ServiceHealthy =>
        /\ \A p \in Procs : pc[p] = "Fatal" => fatal[p].kind # "ResourceExistsError"
        /\ \A p \in Procs : \A i \in DOMAIN indexCalls[p] : indexCalls[p][i].result # "exists"
        /\ Cardinality({c \in IndexResults("create_index") :
                           indexCalls[c[1]][c[2]].result = "created"}) <= 1

(* The positions of all_fields whose identifier did not occur before. *)
FirstSeen ==
    {i \in DOMAIN all_fields :
        \A j \in 1..(i - 1) :
            <<all_fields[j].name, all_fields[j].id, all_fields[j].type>>
                # <<all_fields[i].name, all_fields[i].id, all_fields[i].type>>}

====
